---------------------------- MODULE Spec2Model ----------------------------
(***************************************************************************)
(* Timestamped-echo benchmark of websocket-rs                              *)
(* (src/tests/benchmark_server_timestamp.py): the response codec           *)
(* parse_and_verify_response, the echo server echo_with_timestamps, and    *)
(* the Pipelined (sliding window) and Request-Response drivers, the echo    *)
(* server with several connections, and benchmark_picows under the timeout *)
(* of main().                                                              *)
(*                                                                         *)
(* Bytes are naturals 0..255 and a bytes object is a sequence of them.     *)
(* struct "=I" is 4 bytes little-endian; struct "d" is 8 bytes: a time is  *)
(* a count of clock ticks and its 8 bytes hold that count little-endian    *)
(* (the IEEE-754 layout of the float is not modelled, its width is).       *)
(* The dictionaries send_lats, recv_lats, rtt_lats and client_send_times   *)
(* are functions from message id to integer; a latency is in tick*1000.    *)
(***************************************************************************)
EXTENDS Integers, Sequences, FiniteSets, TLC

VARIABLES
    \* ---- one benchmark run (locals of the driver function)
    pc,                 \* position of the driver coroutine
    num_messages,       \* argument num_messages (N)
    message_size,       \* argument message_size
    max_in_flight,      \* local max_in_flight (window of the Pipelined driver)
    warmup_id,          \* warm-up loop variable
    sent_count,         \* Pipelined: messages dispatched
    recv_count,         \* Pipelined: responses taken from the connection
    msg_id,             \* Request-Response: loop variable
    t_send,             \* Request-Response: client send time of msg_id
    client_send_times,  \* Pipelined: id -> client send time
    send_lats,          \* id -> send latency
    recv_lats,          \* id -> receive latency
    rtt_lats,           \* id -> round trip
    received_ids,       \* set of ids seen in responses
    response,           \* last value returned by ws.recv() / passed to the codec
    outcome,            \* what parse_and_verify_response returned or raised
    error,              \* the exception that ended the run, "" if none
    result,             \* the returned dict, NoResult if none
    sent_log,           \* history: ids of the timed messages handed to ws.send, in order
    \* ---- the connection and the server
    c2s,                \* messages sent by the client, not yet read by the server
    s2c,                \* responses sent by the server, not yet read by the client
    clock,              \* time.perf_counter(), in ticks
    faulted,            \* TRUE once the transport has committed its fault
    lost,               \* id of the response the transport has dropped, None if none
    \* ---- arguments of a direct call of the codec
    expected_payload_len,
    expected_msg_id,
    verify_content,
    built,              \* the fields a response frame was built from
    \* ---- main(): the harness
    row,                \* what main() printed for the run, NoRow if nothing
    \* ---- the echo server and its connections
    inbox,              \* connection -> messages arrived, not yet read by its handler
    outbox,             \* connection -> frames its handler has sent, in order
    handler,            \* connection -> locals of its echo_with_timestamps coroutine
    served,             \* history: connection -> messages its handler has read, in order
    \* ---- benchmark_picows
    transport,          \* the connection returned by ws_connect
    put_tasks,          \* tasks created by on_ws_frame, not yet run
    response_queue,     \* asyncio.Queue of (t_recv, data)
    \* ---- the Batch drivers (benchmark_rust_batch, measure_latency_batch)
    driver,             \* which function runs, "" if none
    batch_size,         \* argument batch_size
    num_batches,        \* num_messages // batch_size
    batch_index,        \* the loop variable of "for _ in range(num_batches)"
    start,              \* benchmark_rust_batch: perf_counter() before send_batch
    batch_start,        \* measure_latency_batch: perf_counter() at the top of the loop
    send_start,         \* measure_latency_batch: perf_counter() before send_batch
    latencies,          \* the list latencies
    dispatched,         \* history: timed messages handed to send_batch
    bursts,             \* history: timed calls of send_batch
    \* ---- a call of percentile (tests/benchmark_latency.py)
    sample_data,        \* argument data
    percent,            \* argument percent
    percentile_out,     \* what the call returned or raised
    \* ---- the comparisons (benchmark.py, tests/benchmark_optimized.py main)
    rust_result,        \* calculate_relative_performance: argument rust_result
    other_result,       \* calculate_relative_performance: argument other_result
    comparison,         \* what calculate_relative_performance returned or raised
    baseline,           \* benchmark_optimized main: baseline
    avg_ms,             \* benchmark_optimized main: result['avg_ms'] of a Rust run
    relative,           \* benchmark_optimized main: relative, or the exception
    \* ---- websocket_rs.patch, websocket_rs.auto_patch and the interpreter
    sys_modules,        \* sys.modules: module name -> "none", "library" or "hook"
    attrs,              \* the patched attributes: dotted name -> what it holds
    original_modules,   \* patch._original_modules: key -> saved value or "unset"
    patched,            \* patch._patched
    meta_path,          \* sys.meta_path
    hook_enabled,       \* auto_patch._hook.enabled
    contexts,           \* the patch_context objects: their fields
    with_stack,         \* the with-blocks entered and not left, innermost last
    last_call,          \* history: the last call of the API and how it ended
    pristine,           \* history: attrs when the current patching began
    replaced,           \* history: attributes replaced since then
    \* ---- WebSocketApp (websocket_rs/patch.py, websocket_rs/auto_patch.py)
    app,                \* the WebSocketApp object and the position of run_forever
    events              \* history: the calls run_forever has made, in order

vars == << pc, num_messages, message_size, max_in_flight, warmup_id, sent_count,
           recv_count, msg_id, t_send, client_send_times, send_lats, recv_lats,
           rtt_lats, received_ids, response, outcome, error, result, sent_log,
           c2s, s2c, clock, faulted, lost,
           expected_payload_len, expected_msg_id, verify_content, built, row,
           inbox, outbox, handler, served,
           transport, put_tasks, response_queue,
           driver, batch_size, num_batches, batch_index, start, batch_start,
           send_start, latencies, dispatched, bursts,
           sample_data, percent, percentile_out,
           rust_result, other_result, comparison, baseline, avg_ms, relative,
           sys_modules, attrs, original_modules, patched, meta_path,
           hook_enabled, contexts, with_stack, last_call, pristine, replaced,
           app, events >>

driverVars == << pc, num_messages, message_size, max_in_flight, warmup_id,
                 sent_count, recv_count, msg_id, t_send, client_send_times,
                 send_lats, recv_lats, rtt_lats, received_ids, error, result,
                 sent_log >>

netVars == << c2s, s2c, clock, faulted, lost >>

argVars == << expected_payload_len, expected_msg_id, verify_content >>

serverVars == << inbox, outbox, handler, served >>

picowsVars == << transport, put_tasks, response_queue >>

batchVars == << driver, batch_size, num_batches, batch_index, start,
                batch_start, send_start, latencies, dispatched, bursts >>

\* The state of the programs beside benchmark_server_timestamp.py.
statVars == << sample_data, percent, percentile_out >>

compareVars == << rust_result, other_result, comparison, baseline, avg_ms,
                  relative >>

patchVars == << sys_modules, attrs, original_modules, patched, meta_path,
                hook_enabled, contexts, with_stack, last_call, pristine,
                replaced >>

appVars == << app, events >>

extraVars == << batchVars, statVars, compareVars, patchVars, appVars >>

-----------------------------------------------------------------------------
(* Bounds of the model *)

MaxN == 2          \* num_messages ranges over 0..MaxN
MaxWindow == 2     \* max_in_flight ranges over 1..MaxWindow
MaxClock == 1      \* perf_counter() saturates at MaxClock ticks
MaxPayload == 2    \* codec inputs: trailing bytes 0..MaxPayload+4
MaxRequests == 3   \* server alone: messages arriving on all connections together

\* payload sizes of the runs (main() runs each of 512 .. 65536 bytes)
MessageSizes == { 1 }

(* Program constants *)

HeaderLen == 24
WarmupCount == 10
WarmupBase == 9999

None == -1         \* Python None for an optional unsigned id

-----------------------------------------------------------------------------
(* Bytes *)

Min(a, b) == IF a < b THEN a ELSE b

Take(s, n) == SubSeq(s, 1, Min(n, Len(s)))

Drop(s, n) == SubSeq(s, n + 1, Len(s))

RemoveAt(s, i) == SubSeq(s, 1, i - 1) \o SubSeq(s, i + 1, Len(s))

Repeat(b, n) == [ i \in 1..n |-> b ]

\* struct.pack("=I", x)
Pack32(x) ==
    << x % 256, (x \div 256) % 256, (x \div 65536) % 256, (x \div 16777216) % 256 >>

\* Only the low 16 bits are read.
Unpack32_low16(b) == b[1] + 256 * b[2]

\* struct.unpack("=I", b)[0]
Unpack32(b) == b[1] + 256 * b[2] + 65536 * b[3] + 16777216 * b[4]

\* struct.pack("=d", t)
Pack64(t) == Pack32(t) \o << 0, 0, 0, 0 >>

\* struct.unpack("=d", b)[0]
Unpack64(b) == Unpack32(SubSeq(b, 1, 4)) + Unpack32(SubSeq(b, 5, 8)) * 65536 * 65536

\* struct.pack("=IddI", id, recv, send, len)
PackHeader(id, recv, send, len) ==
    Pack32(id) \o Pack64(recv) \o Pack64(send) \o Pack32(len)

\* str.encode(): UTF-8 of a sequence of code points below 2048
RECURSIVE encode(_)
encode(s) ==
    IF s = << >> THEN << >>
    ELSE LET c == Head(s) IN
         (IF c < 128 THEN << c >> ELSE << 192 + (c \div 64), 128 + (c % 64) >>)
         \o encode(Tail(s))

Bytes(data) == [ kind |-> "bytes", data |-> data ]

Str(data) == [ kind |-> "str", data |-> data ]

-----------------------------------------------------------------------------
(* parse_and_verify_response *)

Raised(kind) ==
    [ ok |-> FALSE, err |-> kind, msg_id |-> 0, server_recv_time |-> 0,
      server_send_time |-> 0 ]

Returned(id, recv, send) ==
    [ ok |-> TRUE, err |-> "", msg_id |-> id, server_recv_time |-> recv,
      server_send_time |-> send ]

NotCalled == Raised("not called")

\* The identifier test runs first, also on a frame too short to hold a header.
parse_idFirst(resp, payload_len, exp_id, verify) ==
    LET raw == IF resp.kind = "str" THEN encode(resp.data) ELSE resp.data IN
    IF Len(raw) < HeaderLen
    THEN (IF exp_id # None THEN Raised("IdentifierMismatch")
          ELSE Raised("MalformedFrame"))
    ELSE LET id  == Unpack32(SubSeq(raw, 1, 4))
             rcv == Unpack64(SubSeq(raw, 5, 12))
             snd == Unpack64(SubSeq(raw, 13, 20))
             len == Unpack32(SubSeq(raw, 21, 24))
             actual_message == Drop(raw, HeaderLen)
         IN  IF exp_id # None /\ id # exp_id
             THEN Raised("IdentifierMismatch")
             ELSE IF Len(actual_message) # len
             THEN Raised("LengthMismatch")
             ELSE IF verify /\ Len(actual_message) # payload_len + 4
             THEN Raised("PayloadLengthMismatch")
             ELSE Returned(id, rcv, snd)

\* "if expected_msg_id and ..." instead of "is not None": 0 counts as absent.
parse_truthyId(resp, payload_len, exp_id, verify) ==
    LET raw == IF resp.kind = "str" THEN encode(resp.data) ELSE resp.data IN
    IF Len(raw) < HeaderLen
    THEN Raised("MalformedFrame")
    ELSE LET id  == Unpack32(SubSeq(raw, 1, 4))
             rcv == Unpack64(SubSeq(raw, 5, 12))
             snd == Unpack64(SubSeq(raw, 13, 20))
             len == Unpack32(SubSeq(raw, 21, 24))
             actual_message == Drop(raw, HeaderLen)
         IN  IF exp_id # None /\ exp_id # 0 /\ id # exp_id
             THEN Raised("IdentifierMismatch")
             ELSE IF Len(actual_message) # len
             THEN Raised("LengthMismatch")
             ELSE IF verify /\ Len(actual_message) # payload_len + 4
             THEN Raised("PayloadLengthMismatch")
             ELSE Returned(id, rcv, snd)

\* The payload test compares with expected_payload_len, forgetting the +4.
parse_noPrefix(resp, payload_len, exp_id, verify) ==
    LET raw == IF resp.kind = "str" THEN encode(resp.data) ELSE resp.data IN
    IF Len(raw) < HeaderLen
    THEN Raised("MalformedFrame")
    ELSE LET id  == Unpack32(SubSeq(raw, 1, 4))
             rcv == Unpack64(SubSeq(raw, 5, 12))
             snd == Unpack64(SubSeq(raw, 13, 20))
             len == Unpack32(SubSeq(raw, 21, 24))
             actual_message == Drop(raw, HeaderLen)
         IN  IF exp_id # None /\ id # exp_id
             THEN Raised("IdentifierMismatch")
             ELSE IF Len(actual_message) # len
             THEN Raised("LengthMismatch")
             ELSE IF verify /\ Len(actual_message) # payload_len
             THEN Raised("PayloadLengthMismatch")
             ELSE Returned(id, rcv, snd)

parse_and_verify_response(resp, payload_len, exp_id, verify) ==
    LET raw == IF resp.kind = "str" THEN encode(resp.data) ELSE resp.data IN
    IF Len(raw) < HeaderLen
    THEN Raised("MalformedFrame")
    ELSE LET id  == Unpack32(SubSeq(raw, 1, 4))
             rcv == Unpack64(SubSeq(raw, 5, 12))
             snd == Unpack64(SubSeq(raw, 13, 20))
             len == Unpack32(SubSeq(raw, 21, 24))
             actual_message == Drop(raw, HeaderLen)
         IN  IF exp_id # None /\ id # exp_id
             THEN Raised("IdentifierMismatch")
             ELSE IF Len(actual_message) # len
             THEN Raised("LengthMismatch")
             ELSE IF verify /\ Len(actual_message) # payload_len + 4
             THEN Raised("PayloadLengthMismatch")
             ELSE Returned(id, rcv, snd)

-----------------------------------------------------------------------------
(* The connection and the echo server *)

ZeroMean == [ num |-> 0, den |-> 1 ]

NoResult == [ impl |-> "none", send |-> ZeroMean, recv |-> ZeroMean, rtt |-> ZeroMean ]

EmptyMap == [ i \in {} |-> 0 ]

\* main() has printed nothing for the run / the latency row of a result /
\* an ERROR row
NoRow == [ kind |-> "none", what |-> "", result |-> NoResult ]

LatencyRow(r) == [ kind |-> "latency", what |-> r.impl, result |-> r ]

ErrorRow(what) == [ kind |-> "error", what |-> what, result |-> NoResult ]

\* No frame has been built.
NoFrame == [ id |-> 0, recv |-> 0, send |-> 0, payload |-> << >> ]

\* The connections the server handles at once (websockets.serve starts one
\* echo_with_timestamps coroutine per connection).
Conns == { 1, 2 }

\* The locals of a handler that waits in "async for message in websocket".
HandlerWaiting ==
    [ pc |-> "next", message_bytes |-> << >>, msg_id |-> 0,
      server_recv_time |-> 0, server_send_time |-> 0, response |-> << >> ]

\* No server is modelled apart from ServerEcho on the driver's connection.
ServerIdle ==
    /\ inbox = [ c \in Conns |-> << >> ]
    /\ outbox = [ c \in Conns |-> << >> ]
    /\ handler = [ c \in Conns |-> HandlerWaiting ]
    /\ served = [ c \in Conns |-> << >> ]

\* No Batch driver runs.
BatchIdle ==
    /\ driver = "" /\ batch_size = 1 /\ num_batches = 0 /\ batch_index = 0
    /\ start = 0 /\ batch_start = 0 /\ send_start = 0 /\ latencies = << >>
    /\ dispatched = 0 /\ bursts = 0

\* Nothing beside benchmark_server_timestamp.py runs.
\* The value of a call: kind is "not called", "returned" or "raised".
CallOut(kind, value, exc) == [ kind |-> kind, value |-> value, exc |-> exc ]

\* No statistics function is called.
StatIdle ==
    /\ sample_data = << >> /\ percent = 0 /\ percentile_out = CallOut("not called", 0, "")

\* The fields of a BenchmarkResult the comparison reads.
Summary(impl, size, mean, throughput) ==
    [ implementation |-> impl, message_size |-> size,
      avg_latency_ms |-> mean, throughput_mbps |-> throughput ]

\* A ComparisonResult; the percentages are exact quotients num / den.
ComparisonResult(size, impl, lat, thr) ==
    [ message_size |-> size, implementation |-> impl,
      latency_percentage |-> lat, throughput_percentage |-> thr ]

NoPercentage == [ num |-> 0, den |-> 1 ]

NoComparison == ComparisonResult(0, "", NoPercentage, NoPercentage)

\* No comparison is made.
CompareIdle ==
    /\ rust_result = Summary("Rust", 1, 1, 1)
    /\ other_result = Summary("Python Native", 1, 1, 1)
    /\ comparison = CallOut("not called", NoComparison, "")
    /\ baseline = 1 /\ avg_ms = 1
    /\ relative = CallOut("not called", NoPercentage, "")

MaxContexts == 2   \* patch_context objects that may be created
MaxDepth == 2      \* with-blocks that may be open at once

\* The modules the patches and the import hook look for in sys.modules.
ModuleNames ==
    { "websockets", "websockets.sync", "websockets.sync.client",
      "websockets.client", "websocket" }

\* The attributes patch.py assigns.
AttrNames ==
    { "websockets.sync.client.connect", "websockets.sync.client.WebSocket",
      "websockets.connect", "websockets.client.connect",
      "websocket.WebSocketApp", "websocket.WebSocket",
      "websocket.create_connection" }

\* The keys of patch._original_modules.
OriginalKeys == AttrNames \cup { "websockets.sync.client" }

\* A patch_context object that has not been created.
NoContext == [ made |-> FALSE, include_async |-> FALSE, was_patched |-> FALSE ]

NoCall == [ name |-> "", arg |-> "", how |-> "", value |-> "" ]

\* A fresh interpreter in which websocket_rs has been imported: no WebSocket
\* library imported, nothing patched, the import hook not installed.
PatchIdle ==
    /\ sys_modules = [ m \in ModuleNames |-> "none" ]
    /\ attrs = [ a \in AttrNames |-> "absent" ]
    /\ original_modules = [ k \in OriginalKeys |-> "unset" ]
    /\ patched = FALSE
    /\ meta_path = << "PathFinder" >>
    /\ hook_enabled = FALSE
    /\ contexts = [ c \in 1..MaxContexts |-> NoContext ]
    /\ with_stack = << >>
    /\ last_call = NoCall
    /\ pristine = [ a \in AttrNames |-> "absent" ]
    /\ replaced = {}

\* No WebSocketApp exists.
NoApp ==
    [ pc |-> "none", ws |-> "None", on_open |-> FALSE, on_message |-> FALSE,
      on_error |-> FALSE, on_close |-> FALSE, exc |-> "" ]

AppIdle == app = NoApp /\ events = << >>

ExtraIdle == BatchIdle /\ StatIdle /\ CompareIdle /\ PatchIdle /\ AppIdle

\* No picows run in progress.
PicowsIdle ==
    /\ transport = "none" /\ put_tasks = << >> /\ response_queue = << >>

\* d ticks after the last reading of time.perf_counter()
Now(d) == Min(clock + d, MaxClock)

Running == pc \in { "warmup_send", "warmup_recv", "loop", "recv" }

\* The responses ws.recv() may return next: the transport may deliver the
\* responses in flight in any order.
Deliverable == 1..Len(s2c)

\* The header declares the length of the payload without the 4 bytes of the id.
EchoResponse_payloadOnly(message_bytes, server_recv_time, server_send_time) ==
    LET id == IF Len(message_bytes) >= 4
              THEN Unpack32(SubSeq(message_bytes, 1, 4))
              ELSE 0
        len == IF Len(message_bytes) >= 4 THEN Len(message_bytes) - 4 ELSE 0
    IN  PackHeader(id, server_recv_time, server_send_time, len) \o message_bytes

\* echo_with_timestamps: one iteration of "async for message in websocket"
\* (the messages of these clients are bytes)
EchoResponse(message_bytes, server_recv_time, server_send_time) ==
    LET id == IF Len(message_bytes) >= 4
              THEN Unpack32(SubSeq(message_bytes, 1, 4))
              ELSE 0
    IN  PackHeader(id, server_recv_time, server_send_time, Len(message_bytes))
        \o message_bytes

\* The two stamps are packed in the wrong order.
ServerEcho_swapped ==
    /\ Running
    /\ c2s # << >>
    /\ \E d1 \in 0..1, d2 \in 0..1 :
          LET server_recv_time == Now(d1)
              server_send_time == Min(server_recv_time + d2, MaxClock)
          IN  /\ s2c' = Append(s2c, EchoResponse(Head(c2s), server_send_time,
                                                 server_recv_time))
              /\ clock' = server_send_time
    /\ c2s' = Tail(c2s)
    /\ UNCHANGED << faulted, lost >>
    /\ UNCHANGED driverVars
    /\ UNCHANGED << response, outcome >>
    /\ UNCHANGED argVars
    /\ UNCHANGED extraVars
    /\ UNCHANGED << built, row >>
    /\ UNCHANGED serverVars
    /\ UNCHANGED picowsVars

ServerEcho ==
    /\ Running
    /\ c2s # << >>
    /\ \E d1 \in 0..1, d2 \in 0..1 :
          LET server_recv_time == Now(d1)
              server_send_time == Min(server_recv_time + d2, MaxClock)
          IN  /\ s2c' = Append(s2c, EchoResponse(Head(c2s), server_recv_time,
                                                 server_send_time))
              /\ clock' = server_send_time
    /\ c2s' = Tail(c2s)
    /\ UNCHANGED << faulted, lost >>
    /\ UNCHANGED driverVars
    /\ UNCHANGED << response, outcome >>
    /\ UNCHANGED argVars
    /\ UNCHANGED extraVars
    /\ UNCHANGED << built, row >>
    /\ UNCHANGED serverVars
    /\ UNCHANGED picowsVars

\* Transport faults, at most one in a run: a response is delivered twice, never
\* delivered, delivered with another id in its header, or delivered cut short.
CanFault == Running /\ ~faulted

WithId(frame, id) == Pack32(id) \o Drop(frame, 4)

Redeliver ==
    /\ CanFault
    /\ \E i \in 1..Len(s2c) : s2c' = Append(s2c, s2c[i])
    /\ faulted' = TRUE
    /\ UNCHANGED << c2s, clock, lost >>
    /\ UNCHANGED driverVars
    /\ UNCHANGED << response, outcome >>
    /\ UNCHANGED argVars
    /\ UNCHANGED extraVars
    /\ UNCHANGED << built, row >>
    /\ UNCHANGED serverVars
    /\ UNCHANGED picowsVars

Lose ==
    /\ CanFault
    /\ \E i \in 1..Len(s2c) :
          /\ s2c' = RemoveAt(s2c, i)
          /\ lost' = Unpack32(SubSeq(s2c[i], 1, 4))
    /\ faulted' = TRUE
    /\ UNCHANGED << c2s, clock >>
    /\ UNCHANGED driverVars
    /\ UNCHANGED << response, outcome >>
    /\ UNCHANGED argVars
    /\ UNCHANGED extraVars
    /\ UNCHANGED << built, row >>
    /\ UNCHANGED serverVars
    /\ UNCHANGED picowsVars

Corrupt ==
    /\ CanFault
    /\ \E i \in 1..Len(s2c), id \in 0..num_messages :
          /\ id # Unpack32(SubSeq(s2c[i], 1, 4))
          /\ s2c' = [ s2c EXCEPT ![i] = WithId(s2c[i], id) ]
    /\ faulted' = TRUE
    /\ UNCHANGED << c2s, clock, lost >>
    /\ UNCHANGED driverVars
    /\ UNCHANGED << response, outcome >>
    /\ UNCHANGED argVars
    /\ UNCHANGED extraVars
    /\ UNCHANGED << built, row >>
    /\ UNCHANGED serverVars
    /\ UNCHANGED picowsVars

Truncate ==
    /\ CanFault
    /\ \E i \in 1..Len(s2c) :
          \E k \in { HeaderLen - 1, Len(s2c[i]) - 1 } :
             s2c' = [ s2c EXCEPT ![i] = Take(s2c[i], k) ]
    /\ faulted' = TRUE
    /\ UNCHANGED << c2s, clock, lost >>
    /\ UNCHANGED driverVars
    /\ UNCHANGED << response, outcome >>
    /\ UNCHANGED argVars
    /\ UNCHANGED extraVars
    /\ UNCHANGED << built, row >>
    /\ UNCHANGED serverVars
    /\ UNCHANGED picowsVars

-----------------------------------------------------------------------------
(* What the drivers share: the warm-up, the statistics *)

WarmupPayload == << 119, 97, 114, 109, 117, 112 >>     \* b"warmup"

base_message == Repeat(97, message_size)               \* b"a" * message_size

RECURSIVE SumOver(_, _)
SumOver(f, ids) ==
    IF ids = {} THEN 0
    ELSE LET i == CHOOSE x \in ids : TRUE IN f[i] + SumOver(f, ids \ { i })

\* statistics.mean(d.values()) as the fraction sum / count (count >= 1)
Mean(d) == [ num |-> SumOver(d, DOMAIN d), den |-> Cardinality(DOMAIN d) ]

MapPut(d, k, v) == [ i \in DOMAIN d \cup { k } |-> IF i = k THEN v ELSE d[i] ]

\* The send time of a warm-up message is recorded like that of a timed one.
WarmupSend_tracked ==
    /\ pc = "warmup_send"
    /\ c2s' = Append(c2s, Pack32(WarmupBase + warmup_id) \o WarmupPayload)
    /\ client_send_times' = MapPut(client_send_times, WarmupBase + warmup_id, clock)
    /\ pc' = "warmup_recv"
    /\ UNCHANGED << num_messages, message_size, max_in_flight, warmup_id,
                    sent_count, recv_count, msg_id, t_send,
                    send_lats, recv_lats, rtt_lats, received_ids, error, result,
                    sent_log >>
    /\ UNCHANGED << s2c, clock, faulted, lost >>
    /\ UNCHANGED << response, outcome >>
    /\ UNCHANGED argVars
    /\ UNCHANGED extraVars
    /\ UNCHANGED << built, row >>
    /\ UNCHANGED serverVars
    /\ UNCHANGED picowsVars

\* for warmup_id in range(10): await ws.send(struct.pack("=I", 9999 + warmup_id) + b"warmup")
WarmupSend ==
    /\ pc = "warmup_send"
    /\ c2s' = Append(c2s, Pack32(WarmupBase + warmup_id) \o WarmupPayload)
    /\ pc' = "warmup_recv"
    /\ UNCHANGED << num_messages, message_size, max_in_flight, warmup_id,
                    sent_count, recv_count, msg_id, t_send, client_send_times,
                    send_lats, recv_lats, rtt_lats, received_ids, error, result,
                    sent_log >>
    /\ UNCHANGED << s2c, clock, faulted, lost >>
    /\ UNCHANGED << response, outcome >>
    /\ UNCHANGED argVars
    /\ UNCHANGED extraVars
    /\ UNCHANGED << built, row >>
    /\ UNCHANGED serverVars
    /\ UNCHANGED picowsVars

\* The warm-up loop goes on without waiting for the response.
WarmupRecv_noDrain ==
    /\ pc = "warmup_recv"
    /\ warmup_id' = warmup_id + 1
    /\ pc' = IF warmup_id + 1 < WarmupCount THEN "warmup_send" ELSE "loop"
    /\ UNCHANGED << num_messages, message_size, max_in_flight,
                    sent_count, recv_count, msg_id, t_send, client_send_times,
                    send_lats, recv_lats, rtt_lats, received_ids, error, result,
                    sent_log >>
    /\ UNCHANGED netVars
    /\ UNCHANGED << response, outcome >>
    /\ UNCHANGED argVars
    /\ UNCHANGED extraVars
    /\ UNCHANGED << built, row >>
    /\ UNCHANGED serverVars
    /\ UNCHANGED picowsVars

\* await ws.recv(): the warm-up response is dropped unread
WarmupRecv ==
    /\ pc = "warmup_recv"
    /\ \E i \in Deliverable : s2c' = RemoveAt(s2c, i)
    /\ warmup_id' = warmup_id + 1
    /\ pc' = IF warmup_id + 1 < WarmupCount THEN "warmup_send" ELSE "loop"
    /\ UNCHANGED << num_messages, message_size, max_in_flight,
                    sent_count, recv_count, msg_id, t_send, client_send_times,
                    send_lats, recv_lats, rtt_lats, received_ids, error, result,
                    sent_log >>
    /\ UNCHANGED << c2s, clock, faulted, lost >>
    /\ UNCHANGED << response, outcome >>
    /\ UNCHANGED argVars
    /\ UNCHANGED extraVars
    /\ UNCHANGED << built, row >>
    /\ UNCHANGED serverVars
    /\ UNCHANGED picowsVars

\* After the loop: the completeness test and the return value.
\* (statistics.mean of no values raises StatisticsError.)
Completed(impl) ==
    IF Cardinality(received_ids) # num_messages
    THEN [ error |-> "MessageLoss", result |-> NoResult ]
    ELSE IF DOMAIN send_lats = {}
    THEN [ error |-> "StatisticsError", result |-> NoResult ]
    ELSE [ error |-> "",
           result |-> [ impl |-> impl, send |-> Mean(send_lats),
                        recv |-> Mean(recv_lats), rtt |-> Mean(rtt_lats) ] ]

-----------------------------------------------------------------------------
(* benchmark_websockets_async: the Pipelined (sliding window) driver *)

\* "<=" for "<": the window holds one message too many.
WindowOpen_wide ==
    sent_count < num_messages /\ (sent_count - recv_count) <= max_in_flight

\* the window holds one message too few: a window of 1 never opens.
WindowOpen_narrow ==
    sent_count < num_messages /\ (sent_count - recv_count) < max_in_flight - 1

\* the condition of the inner while
WindowOpen ==
    sent_count < num_messages /\ (sent_count - recv_count) < max_in_flight

\* The driver is blocked in "await ws.recv()" of the timed loop.
Awaiting == pc = "loop" /\ recv_count < num_messages /\ ~WindowOpen

\* The latencies are recorded before the duplicate test.
Accept_recordFirst(p, t_recv) ==
    LET id == p.msg_id
        known == id \in DOMAIN client_send_times
        sl == IF known
              THEN MapPut(send_lats, id, (p.server_recv_time - client_send_times[id]) * 1000)
              ELSE send_lats
        rl == IF known
              THEN MapPut(recv_lats, id, (t_recv - p.server_send_time) * 1000)
              ELSE recv_lats
        tl == IF known
              THEN MapPut(rtt_lats, id, (t_recv - client_send_times[id]) * 1000)
              ELSE rtt_lats
    IN
    IF ~p.ok
    THEN [ error |-> p.err, received_ids |-> received_ids,
           send_lats |-> send_lats, recv_lats |-> recv_lats, rtt_lats |-> rtt_lats ]
    ELSE IF id \in received_ids
    THEN [ error |-> "DuplicateIdentifier", received_ids |-> received_ids,
           send_lats |-> sl, recv_lats |-> rl, rtt_lats |-> tl ]
    ELSE IF id >= num_messages
    THEN [ error |-> "IdentifierOutOfRange", received_ids |-> received_ids \cup { id },
           send_lats |-> send_lats, recv_lats |-> recv_lats, rtt_lats |-> rtt_lats ]
    ELSE IF ~known
    THEN [ error |-> "KeyError", received_ids |-> received_ids \cup { id },
           send_lats |-> send_lats, recv_lats |-> recv_lats, rtt_lats |-> rtt_lats ]
    ELSE [ error |-> "", received_ids |-> received_ids \cup { id },
           send_lats |-> sl, recv_lats |-> rl, rtt_lats |-> tl ]

\* ">" for ">=" in the range test: the id num_messages passes it.
Accept_rangeOffByOne(p, t_recv) ==
    LET id == p.msg_id IN
    IF ~p.ok
    THEN [ error |-> p.err, received_ids |-> received_ids,
           send_lats |-> send_lats, recv_lats |-> recv_lats, rtt_lats |-> rtt_lats ]
    ELSE IF id \in received_ids
    THEN [ error |-> "DuplicateIdentifier", received_ids |-> received_ids,
           send_lats |-> send_lats, recv_lats |-> recv_lats, rtt_lats |-> rtt_lats ]
    ELSE IF id > num_messages
    THEN [ error |-> "IdentifierOutOfRange", received_ids |-> received_ids \cup { id },
           send_lats |-> send_lats, recv_lats |-> recv_lats, rtt_lats |-> rtt_lats ]
    ELSE IF id \notin DOMAIN client_send_times
    THEN [ error |-> "KeyError", received_ids |-> received_ids \cup { id },
           send_lats |-> send_lats, recv_lats |-> recv_lats, rtt_lats |-> rtt_lats ]
    ELSE [ error |-> "", received_ids |-> received_ids \cup { id },
           send_lats |-> MapPut(send_lats, id,
                                (p.server_recv_time - client_send_times[id]) * 1000),
           recv_lats |-> MapPut(recv_lats, id, (t_recv - p.server_send_time) * 1000),
           rtt_lats  |-> MapPut(rtt_lats, id, (t_recv - client_send_times[id]) * 1000) ]

\* What the body of the timed loop does with a parsed response p received at
\* t_recv: the duplicate test, received_ids.add, the range test, the latencies
\* (client_send_times[id] raises KeyError for an id never sent).
Accept(p, t_recv) ==
    LET id == p.msg_id IN
    IF ~p.ok
    THEN [ error |-> p.err, received_ids |-> received_ids,
           send_lats |-> send_lats, recv_lats |-> recv_lats, rtt_lats |-> rtt_lats ]
    ELSE IF id \in received_ids
    THEN [ error |-> "DuplicateIdentifier", received_ids |-> received_ids,
           send_lats |-> send_lats, recv_lats |-> recv_lats, rtt_lats |-> rtt_lats ]
    ELSE IF id >= num_messages
    THEN [ error |-> "IdentifierOutOfRange", received_ids |-> received_ids \cup { id },
           send_lats |-> send_lats, recv_lats |-> recv_lats, rtt_lats |-> rtt_lats ]
    ELSE IF id \notin DOMAIN client_send_times
    THEN [ error |-> "KeyError", received_ids |-> received_ids \cup { id },
           send_lats |-> send_lats, recv_lats |-> recv_lats, rtt_lats |-> rtt_lats ]
    ELSE [ error |-> "", received_ids |-> received_ids \cup { id },
           send_lats |-> MapPut(send_lats, id,
                                (p.server_recv_time - client_send_times[id]) * 1000),
           recv_lats |-> MapPut(recv_lats, id, (t_recv - p.server_send_time) * 1000),
           rtt_lats  |-> MapPut(rtt_lats, id, (t_recv - client_send_times[id]) * 1000) ]

InitRun ==
    /\ pc = "warmup_send"
    /\ num_messages \in 0..MaxN
    /\ message_size \in MessageSizes
    /\ warmup_id = 0 /\ sent_count = 0 /\ recv_count = 0 /\ msg_id = 0 /\ t_send = 0
    /\ client_send_times = EmptyMap /\ send_lats = EmptyMap
    /\ recv_lats = EmptyMap /\ rtt_lats = EmptyMap
    /\ received_ids = {} /\ error = "" /\ result = NoResult /\ sent_log = << >>
    /\ response = Bytes(<< >>) /\ outcome = NotCalled
    /\ c2s = << >> /\ s2c = << >> /\ clock = 0
    /\ faulted = FALSE /\ lost = None
    /\ expected_payload_len = 0 /\ expected_msg_id = None /\ verify_content = TRUE
    /\ built = NoFrame /\ row = NoRow
    /\ ServerIdle
    /\ ExtraIdle

InitPipelined ==
    /\ InitRun
    /\ PicowsIdle
    /\ max_in_flight \in 1..MaxWindow

\* The oldest unanswered message is sent again instead of the next one.
TopUpSend_resend ==
    /\ pc = "loop"
    /\ recv_count < num_messages
    /\ WindowOpen
    /\ \E d \in 0..1 :
          /\ client_send_times' = MapPut(client_send_times, recv_count, Now(d))
          /\ clock' = Now(d)
    /\ c2s' = Append(c2s, Pack32(recv_count) \o base_message)
    /\ sent_log' = Append(sent_log, recv_count)
    /\ sent_count' = sent_count + 1
    /\ UNCHANGED << pc, num_messages, message_size, max_in_flight, warmup_id,
                    recv_count, msg_id, t_send, send_lats, recv_lats, rtt_lats,
                    received_ids, error, result >>
    /\ UNCHANGED << s2c, faulted, lost >>
    /\ UNCHANGED << response, outcome >>
    /\ UNCHANGED argVars
    /\ UNCHANGED extraVars
    /\ UNCHANGED << built, row >>
    /\ UNCHANGED serverVars
    /\ UNCHANGED picowsVars

\* one iteration of the inner while: dispatch message sent_count
TopUpSend ==
    /\ pc = "loop"
    /\ recv_count < num_messages
    /\ WindowOpen
    /\ \E d \in 0..1 :
          /\ client_send_times' = MapPut(client_send_times, sent_count, Now(d))
          /\ clock' = Now(d)
    /\ c2s' = Append(c2s, Pack32(sent_count) \o base_message)
    /\ sent_log' = Append(sent_log, sent_count)
    /\ sent_count' = sent_count + 1
    /\ UNCHANGED << pc, num_messages, message_size, max_in_flight, warmup_id,
                    recv_count, msg_id, t_send, send_lats, recv_lats, rtt_lats,
                    received_ids, error, result >>
    /\ UNCHANGED << s2c, faulted, lost >>
    /\ UNCHANGED << response, outcome >>
    /\ UNCHANGED argVars
    /\ UNCHANGED extraVars
    /\ UNCHANGED << built, row >>
    /\ UNCHANGED serverVars
    /\ UNCHANGED picowsVars

\* response = await ws.recv() and the rest of the loop body
PipelinedRecv ==
    /\ Awaiting
    /\ \E i \in Deliverable, d \in 0..1 :
          LET t_recv == Now(d)
              p == parse_and_verify_response(Bytes(s2c[i]), Len(base_message), None, TRUE)
              a == Accept(p, t_recv)
          IN  /\ response' = Bytes(s2c[i])
              /\ s2c' = RemoveAt(s2c, i)
              /\ clock' = t_recv
              /\ outcome' = p
              /\ error' = a.error
              /\ received_ids' = a.received_ids
              /\ send_lats' = a.send_lats
              /\ recv_lats' = a.recv_lats
              /\ rtt_lats' = a.rtt_lats
              /\ pc' = IF a.error = "" THEN "loop" ELSE "failed"
    /\ recv_count' = recv_count + 1
    /\ UNCHANGED << num_messages, message_size, max_in_flight, warmup_id,
                    sent_count, msg_id, t_send, client_send_times, result, sent_log >>
    /\ UNCHANGED << c2s, faulted, lost >>
    /\ UNCHANGED argVars
    /\ UNCHANGED extraVars
    /\ UNCHANGED << built, row >>
    /\ UNCHANGED serverVars
    /\ UNCHANGED picowsVars

\* the loop condition fails: leave the connection, test completeness, return
PipelinedFinish ==
    /\ pc = "loop"
    /\ recv_count >= num_messages
    /\ LET c == Completed("websockets (Async)") IN
          /\ error' = c.error
          /\ result' = c.result
          /\ pc' = IF c.error = "" THEN "returned" ELSE "failed"
    /\ UNCHANGED << num_messages, message_size, max_in_flight, warmup_id,
                    sent_count, recv_count, msg_id, t_send, client_send_times,
                    send_lats, recv_lats, rtt_lats, received_ids, sent_log >>
    /\ UNCHANGED netVars
    /\ UNCHANGED << response, outcome >>
    /\ UNCHANGED argVars
    /\ UNCHANGED extraVars
    /\ UNCHANGED << built, row >>
    /\ UNCHANGED serverVars
    /\ UNCHANGED picowsVars

\* main(): result = await ...(benchmark_websockets_async(...)); print(...).
\* An exception of the driver passes through main(), which prints nothing more.
MainPrint ==
    /\ pc = "returned"
    /\ row = NoRow
    /\ row' = LatencyRow(result)
    /\ UNCHANGED built
    /\ UNCHANGED driverVars
    /\ UNCHANGED netVars
    /\ UNCHANGED << response, outcome >>
    /\ UNCHANGED argVars
    /\ UNCHANGED extraVars
    /\ UNCHANGED serverVars
    /\ UNCHANGED picowsVars

NextPipelined ==
    \/ WarmupSend
    \/ WarmupRecv
    \/ TopUpSend
    \/ PipelinedRecv
    \/ PipelinedFinish
    \/ MainPrint
    \/ ServerEcho
    \/ Redeliver
    \/ Lose
    \/ Corrupt
    \/ Truncate

SpecPipelined == InitPipelined /\ [][NextPipelined]_vars

\* The runs the progress claims are about: every response delivered once, or
\* one response never delivered.
NextReliableOrLossy ==
    \/ WarmupSend
    \/ WarmupRecv
    \/ TopUpSend
    \/ PipelinedRecv
    \/ PipelinedFinish
    \/ MainPrint
    \/ ServerEcho
    \/ Lose

\* The event loop runs every coroutine that can run: the driver and the server.
FairPipelined ==
    /\ InitPipelined /\ [][NextReliableOrLossy]_vars
    /\ WF_vars(WarmupSend) /\ WF_vars(WarmupRecv) /\ WF_vars(TopUpSend)
    /\ WF_vars(PipelinedRecv) /\ WF_vars(PipelinedFinish) /\ WF_vars(ServerEcho)

-----------------------------------------------------------------------------
(* Claims about the Pipelined driver *)

InFlight == sent_count - recv_count

Latencies == << send_lats, recv_lats, rtt_lats >>

\* A step of the timed loop that takes a response from the connection.
TimedReceive == recv_count' = recv_count + 1

\* C1: 0 <= sent_count - recv_count <= max_in_flight at every point of the
\* control loop, for every N >= 0, every window >= 1 and every delivery order.
C1_WindowInvariant == 0 <= InFlight /\ InFlight <= max_in_flight

C1_Witness ==
    /\ Awaiting
    /\ InFlight = max_in_flight
    /\ sent_count < num_messages

AllReceived ==
    /\ pc = "returned"
    /\ recv_count = num_messages
    /\ received_ids = 0..(num_messages - 1)

\* C2 as stated: unless the transport commits a fault, the run ends
\* successfully with recv_count = N and received_ids = {0..N-1}, whatever the
\* delivery order.
C2_Original == (num_messages >= 0) ~> (faulted \/ AllReceived)

\* C2 amended: the same for N >= 1 (with N = 0 the mean of no samples raises).
C2_Terminates == (num_messages >= 1) ~> (faulted \/ AllReceived)

C2_Witness ==
    /\ AllReceived
    /\ ~faulted
    /\ outcome.msg_id # num_messages - 1
    /\ num_messages = MaxN
    /\ max_in_flight = MaxWindow
    /\ result.send.den = num_messages

\* C5: a response whose id is already in received_ids ends the run with the
\* duplicate error; no latency record changes and nothing is returned.
C5_DuplicateAborts ==
    /\ [][ (TimedReceive /\ outcome'.ok /\ outcome'.msg_id \in received_ids)
              => /\ pc' = "failed"
                 /\ error' = "DuplicateIdentifier"
                 /\ UNCHANGED Latencies
                 /\ result' = NoResult ]_vars
    /\ [](error = "DuplicateIdentifier" => (pc = "failed" /\ result = NoResult))

C5_Witness ==
    /\ error = "DuplicateIdentifier"
    /\ outcome.msg_id \in DOMAIN rtt_lats
    /\ recv_count >= 2

\* C6: a run whose response for some timed id is never delivered fails with
\* the message-loss error, and no run returns statistics over fewer than N
\* messages.
C6_MessageLoss ==
    /\ (lost \in 0..(num_messages - 1)) ~> (pc = "failed" /\ error = "MessageLoss")
    /\ [](pc = "returned" => Cardinality(DOMAIN rtt_lats) = num_messages)

\* C7: a response whose id is >= N ends the run with the out-of-range error
\* and no latency record is made for that id.
C7_OutOfRangeAborts ==
    /\ [][ (TimedReceive /\ outcome'.ok /\ outcome'.msg_id >= num_messages)
              => /\ pc' = "failed"
                 /\ error' = "IdentifierOutOfRange"
                 /\ UNCHANGED Latencies
                 /\ result' = NoResult ]_vars
    /\ [](\A id \in DOMAIN send_lats \cup DOMAIN recv_lats \cup DOMAIN rtt_lats :
             id < num_messages)

C7_Witness ==
    /\ error = "IdentifierOutOfRange"
    /\ num_messages >= 1
    /\ outcome.msg_id = num_messages
    /\ outcome.msg_id \notin DOMAIN rtt_lats

-----------------------------------------------------------------------------
(* benchmark_websockets_request_response: the Sequential driver *)

\* The next message is sent without waiting for the response.
AfterSend_noWait == "loop"

\* where the loop body is after "await ws.send(message)": at "await ws.recv()"
AfterSend == "recv"

\* No expected id is given to the codec.
ExpectedId_none == None

\* the argument expected_msg_id=msg_id of the call of the codec
ExpectedId == msg_id

\* What the loop body does with a parsed response p received at t_recv:
\* the duplicate test, received_ids.add, the latencies of msg_id.
SeqAccept(p, t_recv) ==
    IF ~p.ok
    THEN [ error |-> p.err, received_ids |-> received_ids,
           send_lats |-> send_lats, recv_lats |-> recv_lats, rtt_lats |-> rtt_lats ]
    ELSE IF p.msg_id \in received_ids
    THEN [ error |-> "DuplicateIdentifier", received_ids |-> received_ids,
           send_lats |-> send_lats, recv_lats |-> recv_lats, rtt_lats |-> rtt_lats ]
    ELSE [ error |-> "", received_ids |-> received_ids \cup { p.msg_id },
           send_lats |-> MapPut(send_lats, msg_id, (p.server_recv_time - t_send) * 1000),
           recv_lats |-> MapPut(recv_lats, msg_id, (t_recv - p.server_send_time) * 1000),
           rtt_lats  |-> MapPut(rtt_lats, msg_id, (t_recv - t_send) * 1000) ]

InitSequential ==
    /\ InitRun
    /\ PicowsIdle
    /\ max_in_flight = 1

\* message = struct.pack("=I", msg_id) + base_message; await ws.send(message)
SeqSend ==
    /\ pc = "loop"
    /\ msg_id < num_messages
    /\ \E d \in 0..1 :
          /\ t_send' = Now(d)
          /\ clock' = Now(d)
    /\ c2s' = Append(c2s, Pack32(msg_id) \o base_message)
    /\ sent_log' = Append(sent_log, msg_id)
    /\ pc' = AfterSend
    /\ UNCHANGED << num_messages, message_size, max_in_flight, warmup_id,
                    sent_count, recv_count, msg_id, client_send_times,
                    send_lats, recv_lats, rtt_lats, received_ids, error, result >>
    /\ UNCHANGED << s2c, faulted, lost >>
    /\ UNCHANGED << response, outcome >>
    /\ UNCHANGED argVars
    /\ UNCHANGED extraVars
    /\ UNCHANGED << built, row >>
    /\ UNCHANGED serverVars
    /\ UNCHANGED picowsVars

\* response = await ws.recv() and the rest of the loop body
SeqRecv ==
    /\ pc = "recv"
    /\ \E i \in Deliverable, d \in 0..1 :
          LET t_recv == Now(d)
              p == parse_and_verify_response(Bytes(s2c[i]), Len(base_message),
                                             ExpectedId, TRUE)
              a == SeqAccept(p, t_recv)
          IN  /\ response' = Bytes(s2c[i])
              /\ s2c' = RemoveAt(s2c, i)
              /\ clock' = t_recv
              /\ outcome' = p
              /\ error' = a.error
              /\ received_ids' = a.received_ids
              /\ send_lats' = a.send_lats
              /\ recv_lats' = a.recv_lats
              /\ rtt_lats' = a.rtt_lats
              /\ pc' = IF a.error = "" THEN "loop" ELSE "failed"
              /\ msg_id' = IF a.error = "" THEN msg_id + 1 ELSE msg_id
    /\ UNCHANGED << num_messages, message_size, max_in_flight, warmup_id,
                    sent_count, recv_count, t_send, client_send_times, result,
                    sent_log >>
    /\ UNCHANGED << c2s, faulted, lost >>
    /\ UNCHANGED argVars
    /\ UNCHANGED extraVars
    /\ UNCHANGED << built, row >>
    /\ UNCHANGED serverVars
    /\ UNCHANGED picowsVars

\* the for loop is exhausted: leave the connection, test completeness, return
SeqFinish ==
    /\ pc = "loop"
    /\ msg_id >= num_messages
    /\ LET c == Completed("websockets (RR)") IN
          /\ error' = c.error
          /\ result' = c.result
          /\ pc' = IF c.error = "" THEN "returned" ELSE "failed"
    /\ UNCHANGED << num_messages, message_size, max_in_flight, warmup_id,
                    sent_count, recv_count, msg_id, t_send, client_send_times,
                    send_lats, recv_lats, rtt_lats, received_ids, sent_log >>
    /\ UNCHANGED netVars
    /\ UNCHANGED << response, outcome >>
    /\ UNCHANGED argVars
    /\ UNCHANGED extraVars
    /\ UNCHANGED << built, row >>
    /\ UNCHANGED serverVars
    /\ UNCHANGED picowsVars

NextSequential ==
    \/ WarmupSend
    \/ WarmupRecv
    \/ SeqSend
    \/ SeqRecv
    \/ SeqFinish
    \/ ServerEcho
    \/ Redeliver
    \/ Lose
    \/ Corrupt
    \/ Truncate

SpecSequential == InitSequential /\ [][NextSequential]_vars

-----------------------------------------------------------------------------
(* Claims about the Sequential driver *)

\* timed messages sent and not yet answered by an accepted response
Outstanding == Len(sent_log) - Cardinality(DOMAIN rtt_lats)

ResponseId(r) == Unpack32(SubSeq(r.data, 1, 4))

\* C3: at most one timed message is outstanding, and message i+1 is sent only
\* after the response to message i has been received and verified.
C3_OneOutstanding ==
    /\ [](Outstanding \in { 0, 1 })
    /\ [][ sent_log' # sent_log
              => /\ Outstanding = 0
                 /\ sent_log' = Append(sent_log, Len(sent_log))
                 /\ DOMAIN rtt_lats = 0..(Len(sent_log) - 1)
                 /\ received_ids = DOMAIN rtt_lats ]_vars

C3_Witness ==
    /\ pc = "recv"
    /\ Len(sent_log) = 2
    /\ DOMAIN rtt_lats = { 0 }
    /\ Outstanding = 1

\* C4: an accepted response carries the loop index as its id; a response with
\* another id ends the run at that step: no latency is recorded for it and
\* no further message is sent.
C4_StrictOrdering ==
    /\ [][ Latencies' # Latencies
              => /\ outcome'.ok
                 /\ outcome'.msg_id = msg_id
                 /\ ResponseId(response') = msg_id
                 /\ DOMAIN rtt_lats' = DOMAIN rtt_lats \cup { msg_id } ]_vars
    /\ [][ (/\ pc = "recv" /\ pc' # "recv"
            /\ Len(response'.data) >= HeaderLen
            /\ ResponseId(response') # msg_id)
              => /\ pc' = "failed"
                 /\ error' = "IdentifierMismatch"
                 /\ UNCHANGED Latencies
                 /\ UNCHANGED received_ids ]_vars
    /\ [][ pc = "failed" => UNCHANGED << sent_log, c2s, pc >> ]_vars

C4_Witness ==
    /\ pc = "failed"
    /\ error = "IdentifierMismatch"
    /\ msg_id = 1
    /\ ResponseId(response) = 0
    /\ DOMAIN rtt_lats = { 0 }

-----------------------------------------------------------------------------
(* A direct call of the codec on one input *)

\* No run in progress: the locals of the drivers hold nothing.
DriverIdle ==
    /\ num_messages = 0 /\ message_size = 0 /\ max_in_flight = 1
    /\ warmup_id = 0 /\ sent_count = 0 /\ recv_count = 0 /\ msg_id = 0 /\ t_send = 0
    /\ client_send_times = EmptyMap /\ send_lats = EmptyMap
    /\ recv_lats = EmptyMap /\ rtt_lats = EmptyMap
    /\ received_ids = {} /\ error = "" /\ result = NoResult /\ sent_log = << >>

NetIdle ==
    /\ c2s = << >> /\ s2c = << >> /\ clock = 0
    /\ faulted = FALSE /\ lost = None

CodecIds == { 0, 1, 300 }

\* header(id, 1, 2, len) followed by n payload bytes.  The inputs keep every
\* unpacked 32-bit field below 2^31; the last str has 23 characters and 24 bytes.
CodecFrame(id, len, n) == PackHeader(id, 1, 2, len) \o Repeat(97, n)

CodecFrames ==
    { CodecFrame(id, len, n) : id \in CodecIds, len \in 0..(MaxPayload + 4),
                               n \in 0..(MaxPayload + 4) }

CodecInputs ==
    { Bytes(f) : f \in CodecFrames }
    \cup { Bytes(Take(CodecFrame(id, 0, 0), k)) : id \in CodecIds, k \in { 0, 4, 23 } }
    \cup { Str(CodecFrame(id, n, n)) : id \in { 0, 1 }, n \in { 0, 4, 5 } }
    \cup { Str(Repeat(97, k)) : k \in { 0, 23 } }
    \cup { Str(Repeat(233, 11)) }
    \cup { Str(SubSeq(CodecFrame(id, 0, 0), 1, 20) \o << 233, 0, 0 >>) : id \in { 0, 1 } }

InitCodec ==
    /\ pc = "call"
    /\ response \in CodecInputs
    /\ expected_payload_len \in 0..MaxPayload
    /\ expected_msg_id \in { None } \cup CodecIds
    /\ verify_content \in BOOLEAN
    /\ outcome = NotCalled
    /\ built = NoFrame /\ row = NoRow
    /\ DriverIdle
    /\ NetIdle
    /\ ServerIdle
    /\ ExtraIdle
    /\ PicowsIdle

CallCodec ==
    /\ pc = "call"
    /\ outcome' = parse_and_verify_response(response, expected_payload_len,
                                            expected_msg_id, verify_content)
    /\ pc' = "called"
    /\ UNCHANGED << num_messages, message_size, max_in_flight, warmup_id,
                    sent_count, recv_count, msg_id, t_send, client_send_times,
                    send_lats, recv_lats, rtt_lats, received_ids, error, result,
                    sent_log, response >>
    /\ UNCHANGED netVars
    /\ UNCHANGED argVars
    /\ UNCHANGED extraVars
    /\ UNCHANGED << built, row >>
    /\ UNCHANGED serverVars
    /\ UNCHANGED picowsVars

NextCodec == CallCodec

SpecCodec == InitCodec /\ [][NextCodec]_vars

-----------------------------------------------------------------------------
(* Claims about the codec *)

RawResponse == IF response.kind = "str" THEN encode(response.data) ELSE response.data

HeaderId == Unpack32(SubSeq(RawResponse, 1, 4))

DeclaredLen == Unpack32(SubSeq(RawResponse, 21, 24))

TrailingLen == Len(RawResponse) - HeaderLen

LengthError == outcome.err \in { "LengthMismatch", "PayloadLengthMismatch" }

\* C8: a response of fewer than 24 bytes is rejected as a malformed frame,
\* whatever expected_msg_id and verify_content are.
C8_ShortFrameRejected ==
    (pc = "called" /\ Len(RawResponse) < HeaderLen)
        => (~outcome.ok /\ outcome.err = "MalformedFrame")

C8_Witness ==
    /\ pc = "called"
    /\ Len(RawResponse) = HeaderLen - 1
    /\ expected_msg_id = 0
    /\ verify_content
    /\ outcome.err = "MalformedFrame"

\* C9: the codec raises the identifier mismatch exactly when an expected id is
\* supplied (0 included) and differs from the id of the header; with no
\* expected id the codec rejects no id.
C9_IdentifierMismatchExactly ==
    pc = "called" =>
        /\ (outcome.err = "IdentifierMismatch")
              <=> (/\ Len(RawResponse) >= HeaderLen
                   /\ expected_msg_id # None
                   /\ HeaderId # expected_msg_id)
        /\ (expected_msg_id = None => outcome.err # "IdentifierMismatch")

C9_Witness ==
    /\ pc = "called"
    /\ Len(RawResponse) >= HeaderLen
    /\ expected_msg_id = 0
    /\ HeaderId = 1
    /\ outcome.err = "IdentifierMismatch"

\* C10 as stated: a declared payload_len different from the trailing byte
\* count, or (with verify_content) a trailing count different from
\* expected_payload_len + 4, gives a length mismatch, and a frame passing both
\* tests is accepted.
C10_Original ==
    (pc = "called" /\ Len(RawResponse) >= HeaderLen) =>
        IF \/ DeclaredLen # TrailingLen
           \/ (verify_content /\ TrailingLen # expected_payload_len + 4)
        THEN LengthError
        ELSE outcome.ok

\* C10 amended: the same, for a frame that passes the identifier test (no
\* expected id, or the expected id is the id of the header).
C10_LengthMismatch ==
    (/\ pc = "called"
     /\ Len(RawResponse) >= HeaderLen
     /\ (expected_msg_id = None \/ HeaderId = expected_msg_id)) =>
        /\ (DeclaredLen # TrailingLen) => outcome.err = "LengthMismatch"
        /\ (/\ DeclaredLen = TrailingLen
            /\ verify_content
            /\ TrailingLen # expected_payload_len + 4)
              => outcome.err = "PayloadLengthMismatch"
        /\ (/\ DeclaredLen = TrailingLen
            /\ (verify_content => TrailingLen = expected_payload_len + 4))
              => (/\ outcome.ok
                  /\ outcome.msg_id = HeaderId
                  /\ outcome.server_recv_time = 1
                  /\ outcome.server_send_time = 2)

C10_Witness ==
    /\ pc = "called"
    /\ Len(RawResponse) >= HeaderLen
    /\ verify_content
    /\ expected_msg_id = 1
    /\ DeclaredLen = TrailingLen
    /\ TrailingLen # expected_payload_len + 4
    /\ outcome.err = "PayloadLengthMismatch"

-----------------------------------------------------------------------------
(* A frame built from given fields and handed to the codec *)

\* response_header + message_bytes, with the header packed from the given
\* id and stamps and the length of the message
BuildResponse(id, recv, send, payload) ==
    PackHeader(id, recv, send, Len(payload)) \o payload

\* ids up to the largest the 32-bit integers of the checker hold
RoundTripIds == { 0, 1, 255, 256, 65536, WarmupBase, 2147483647 }

\* (server_recv_time, server_send_time): the codec is given any pair
RoundTripStamps == { << 0, 0 >>, << 0, MaxClock >>, << MaxClock, 0 >>, << 70000, 70001 >> }

RoundTripPayloads == { Repeat(b, n) : b \in { 0, 255 }, n \in 0..(MaxPayload + 4) }

InitRoundTrip ==
    /\ pc = "build"
    /\ built \in { [ id |-> i, recv |-> t[1], send |-> t[2], payload |-> p ] :
                       i \in RoundTripIds, t \in RoundTripStamps,
                       p \in RoundTripPayloads }
    /\ expected_payload_len \in { Len(built.payload) - 4, 0 }
    /\ expected_msg_id \in { None, built.id, 1 }
    /\ verify_content \in BOOLEAN
    /\ response = Bytes(<< >>)
    /\ outcome = NotCalled
    /\ row = NoRow
    /\ DriverIdle
    /\ NetIdle
    /\ ServerIdle
    /\ ExtraIdle
    /\ PicowsIdle

BuildFrame ==
    /\ pc = "build"
    /\ response' = Bytes(BuildResponse(built.id, built.recv, built.send, built.payload))
    /\ pc' = "call"
    /\ UNCHANGED << num_messages, message_size, max_in_flight, warmup_id,
                    sent_count, recv_count, msg_id, t_send, client_send_times,
                    send_lats, recv_lats, rtt_lats, received_ids, error, result,
                    sent_log, outcome >>
    /\ UNCHANGED netVars
    /\ UNCHANGED argVars
    /\ UNCHANGED extraVars
    /\ UNCHANGED << built, row >>
    /\ UNCHANGED serverVars
    /\ UNCHANGED picowsVars

NextRoundTrip ==
    \/ BuildFrame
    \/ CallCodec

SpecRoundTrip == InitRoundTrip /\ [][NextRoundTrip]_vars

\* The arguments of the call describe the frame: no expected id or the id of
\* the frame, and no content verification or the length of the payload less
\* the 4 bytes of the id.
ArgsMatchFrame ==
    /\ expected_msg_id \in { None, built.id }
    /\ verify_content => Len(built.payload) = expected_payload_len + 4

\* C11: decoding header(id, t_recv, t_send, len(payload)) + payload returns
\* exactly (id, t_recv, t_send), for every id and every payload of bounded
\* length, when the arguments of the call describe the frame.
C11_RoundTrip ==
    (pc = "called" /\ ArgsMatchFrame)
        => outcome = Returned(built.id, built.recv, built.send)

C11_Witness ==
    /\ pc = "called"
    /\ ArgsMatchFrame
    /\ verify_content
    /\ built.id = 2147483647
    /\ built.recv = 70000
    /\ Len(built.payload) = MaxPayload + 4
    /\ outcome.ok
    /\ outcome.msg_id = built.id
    /\ outcome.server_send_time = built.send

-----------------------------------------------------------------------------
(* start_timestamp_server: the echo server with several connections *)

\* message.encode() if the message is a str
MessageBytes(message) ==
    IF message.kind = "str" THEN encode(message.data) ELSE message.data

\* What a client sends on connection c: the same ids on every connection, a
\* payload made of a byte that names the connection.  A message shorter than
\* 4 bytes, timed requests of payload size 1 with ids 0 and 1, a text message.
Inbound(c) ==
    { Bytes(Repeat(96 + c, 3)) }
    \cup { Bytes(Pack32(id) \o Repeat(96 + c, 1)) : id \in { 0, 1 } }
    \cup { Str(<< 1, 0, 0, 0, 233, 96 + c >>) }

Arrived(c) == Len(served[c]) + Len(inbox[c])

RECURSIVE ArrivedOn(_)
ArrivedOn(cs) ==
    IF cs = {} THEN 0
    ELSE LET c == CHOOSE x \in cs : TRUE IN Arrived(c) + ArrivedOn(cs \ { c })

InitServer ==
    /\ pc = "serving"
    /\ ServerIdle
    /\ ExtraIdle
    /\ response = Bytes(<< >>) /\ outcome = NotCalled
    /\ expected_payload_len = 0 /\ expected_msg_id = None /\ verify_content = TRUE
    /\ built = NoFrame /\ row = NoRow
    /\ DriverIdle
    /\ NetIdle
    /\ PicowsIdle

\* a client sends a message on connection c
ClientSend(c) ==
    /\ pc = "serving"
    /\ ArrivedOn(Conns) < MaxRequests
    /\ \E message \in Inbound(c) :
          inbox' = [ inbox EXCEPT ![c] = Append(@, message) ]
    /\ UNCHANGED << outbox, handler, served >>
    /\ UNCHANGED driverVars
    /\ UNCHANGED netVars
    /\ UNCHANGED << response, outcome >>
    /\ UNCHANGED argVars
    /\ UNCHANGED extraVars
    /\ UNCHANGED << built, row >>
    /\ UNCHANGED picowsVars

\* The handler of c reads the next message while its last response is unsent.
HandlerReady_concurrent(c) == TRUE

\* The handler of connection c is at "async for message in websocket".
HandlerReady(c) == handler[c].pc = "next"

\* Every handler sends on the connection accepted first.
SendTarget_first(c) == CHOOSE x \in Conns : \A y \in Conns : x <= y

\* "await websocket.send(response)": websocket is the parameter of the handler
SendTarget(c) == c

\* the body of the loop up to "await websocket.send(response)"
EchoRecv(c) ==
    /\ pc = "serving"
    /\ HandlerReady(c)
    /\ inbox[c] # << >>
    /\ \E d1 \in 0..1, d2 \in 0..1 :
          LET message == Head(inbox[c])
              server_recv_time == Now(d1)
              message_bytes == MessageBytes(message)
              msg_id_ == IF Len(message_bytes) >= 4
                         THEN Unpack32(SubSeq(message_bytes, 1, 4))
                         ELSE 0
              server_send_time == Min(server_recv_time + d2, MaxClock)
          IN  /\ handler' = [ handler EXCEPT ![c] =
                    [ pc |-> "send", message_bytes |-> message_bytes,
                      msg_id |-> msg_id_,
                      server_recv_time |-> server_recv_time,
                      server_send_time |-> server_send_time,
                      response |-> EchoResponse(message_bytes, server_recv_time,
                                                server_send_time) ] ]
              /\ clock' = server_send_time
    /\ inbox' = [ inbox EXCEPT ![c] = Tail(@) ]
    /\ served' = [ served EXCEPT ![c] = Append(@, Head(inbox[c])) ]
    /\ UNCHANGED outbox
    /\ UNCHANGED driverVars
    /\ UNCHANGED << c2s, s2c, faulted, lost >>
    /\ UNCHANGED << response, outcome >>
    /\ UNCHANGED argVars
    /\ UNCHANGED extraVars
    /\ UNCHANGED << built, row >>
    /\ UNCHANGED picowsVars

\* "await websocket.send(response)" completes
EchoSend(c) ==
    /\ pc = "serving"
    /\ handler[c].pc = "send"
    /\ outbox' = [ outbox EXCEPT ![SendTarget(c)] = Append(@, handler[c].response) ]
    /\ handler' = [ handler EXCEPT ![c].pc = "next" ]
    /\ UNCHANGED << inbox, served >>
    /\ UNCHANGED driverVars
    /\ UNCHANGED netVars
    /\ UNCHANGED << response, outcome >>
    /\ UNCHANGED argVars
    /\ UNCHANGED extraVars
    /\ UNCHANGED << built, row >>
    /\ UNCHANGED picowsVars

NextServer ==
    \/ \E c \in Conns : ClientSend(c)
    \/ \E c \in Conns : EchoRecv(c)
    \/ \E c \in Conns : EchoSend(c)

SpecServer == InitServer /\ [][NextServer]_vars

-----------------------------------------------------------------------------
(* Claims about the echo server *)

FrameId(frame) == Unpack32(SubSeq(frame, 1, 4))

FrameRecvTime(frame) == Unpack64(SubSeq(frame, 5, 12))

FrameSendTime(frame) == Unpack64(SubSeq(frame, 13, 20))

FrameLen(frame) == Unpack32(SubSeq(frame, 21, 24))

FramePayload(frame) == Drop(frame, HeaderLen)

\* the id a request carries: its first 4 bytes, 0 if it has fewer
RequestId(m) == IF Len(m) >= 4 THEN Unpack32(SubSeq(m, 1, 4)) ELSE 0

\* Frame f answers the request with bytes m.
Answers(f, m) ==
    /\ Len(f) >= HeaderLen
    /\ FrameId(f) = RequestId(m)
    /\ FrameLen(f) = Len(m)
    /\ FramePayload(f) = m

\* Frame f passes the codec as the response to the timed request m.
Decodes(f, m) ==
    LET p == parse_and_verify_response(Bytes(f), Len(m) - 4, RequestId(m), TRUE)
    IN  /\ p.ok
        /\ p.msg_id = RequestId(m)
        /\ p.server_recv_time = FrameRecvTime(f)
        /\ p.server_send_time = FrameSendTime(f)

\* C12: the frame emitted for a message has the first 4 bytes of the message
\* as its id (0 for a message shorter than 4 bytes), the length of the message
\* as payload_len and the message unchanged as payload; the frame for a timed
\* request of payload size S passes the codec with expected_payload_len = S
\* and the id of the request.
C12_EchoFrame ==
    \A c \in Conns : \A k \in 1..Len(outbox[c]) :
        /\ k <= Len(served[c])
        /\ LET m == MessageBytes(served[c][k])
               f == outbox[c][k]
           IN  /\ Answers(f, m)
               /\ Len(m) >= 4 => Decodes(f, m)

C12_Witness ==
    \E c \in Conns :
        /\ Len(outbox[c]) = MaxRequests
        /\ Len(MessageBytes(served[c][1])) < 4
        /\ FrameId(outbox[c][1]) = 0
        /\ served[c][2].kind = "str"
        /\ FrameId(outbox[c][2]) = 1
        /\ Decodes(outbox[c][MaxRequests], MessageBytes(served[c][MaxRequests]))

\* C14: on one connection the k-th response sent carries the id and the
\* payload of the k-th request received, and the response to a request is sent
\* before the next request of that connection is processed.
C14_OrderPreserved ==
    /\ [](\A c \in Conns :
            /\ Len(served[c]) - Len(outbox[c]) = (IF handler[c].pc = "send" THEN 1 ELSE 0)
            /\ \A k \in 1..Len(outbox[c]) :
                  /\ FrameId(outbox[c][k]) = RequestId(MessageBytes(served[c][k]))
                  /\ FramePayload(outbox[c][k]) = MessageBytes(served[c][k]))
    /\ [][ \A c \in Conns :
              /\ served'[c] # served[c]
                    => /\ Len(outbox[c]) = Len(served[c])
                       /\ served'[c] = Append(served[c], Head(inbox[c]))
              /\ outbox'[c] # outbox[c]
                    => /\ Len(outbox'[c]) = Len(served[c])
                       /\ SubSeq(outbox'[c], 1, Len(outbox[c])) = outbox[c] ]_vars

C14_Witness ==
    \E c \in Conns :
        /\ Len(outbox[c]) = 2
        /\ handler[c].pc = "send"
        /\ FrameId(outbox[c][1]) = 1
        /\ FrameId(outbox[c][2]) = 0
        /\ handler[c].msg_id = 1
        /\ FramePayload(outbox[c][1]) # handler[c].message_bytes

\* C15: with clients connected at once and using the same ids, a connection
\* gets only responses to its own requests, and a step of one handler changes
\* the state of no other handler.
C15_PerConnection ==
    /\ [](\A c \in Conns :
            /\ Len(outbox[c]) <= Len(served[c])
            /\ \A k \in 1..Len(outbox[c]) :
                  /\ \E j \in 1..Len(served[c]) :
                        FramePayload(outbox[c][k]) = MessageBytes(served[c][j])
                  /\ \A c2 \in Conns \ { c } : \A j \in 1..Len(served[c2]) :
                        FramePayload(outbox[c][k]) # MessageBytes(served[c2][j]))
    /\ [][ \A c \in Conns :
              (handler'[c] # handler[c] \/ outbox'[c] # outbox[c])
                 => \A c2 \in Conns \ { c } :
                       /\ handler'[c2] = handler[c2]
                       /\ outbox'[c2] = outbox[c2]
                       /\ served'[c2] = served[c2] ]_vars

C15_Witness ==
    /\ handler[1].pc = "send"
    /\ handler[2].pc = "send"
    /\ handler[1].msg_id = handler[2].msg_id
    /\ handler[1].message_bytes # handler[2].message_bytes
    /\ outbox[1] = << >>
    /\ Len(outbox[2]) = 1
    /\ FrameId(outbox[2][1]) = handler[1].msg_id

-----------------------------------------------------------------------------
(* Claims about the stamps of the server as the drivers see them *)

\* C13: server_send_time >= server_recv_time in every frame the server has
\* sent, in every response the codec accepts and in every response a latency
\* is computed from.
C13_StampsOrdered ==
    /\ [](\A i \in 1..Len(s2c) :
            Len(s2c[i]) >= HeaderLen => FrameSendTime(s2c[i]) >= FrameRecvTime(s2c[i]))
    /\ [](outcome.ok => outcome.server_send_time >= outcome.server_recv_time)
    /\ [][ Latencies' # Latencies
              => /\ outcome'.ok
                 /\ outcome'.server_send_time >= outcome'.server_recv_time ]_vars

C13_Witness ==
    /\ outcome.ok
    /\ outcome.server_send_time > outcome.server_recv_time
    /\ outcome.msg_id \in DOMAIN rtt_lats
    /\ pc = "returned"

-----------------------------------------------------------------------------
(* Claims about the warm-up *)

WarmupIds == { WarmupBase + k : k \in 0..(WarmupCount - 1) }

InWarmup == pc \in { "warmup_send", "warmup_recv" }

\* A message or frame in flight that belongs to the warm-up.
IsWarmup(b) == Len(b) >= 4 /\ Unpack32(SubSeq(b, 1, 4)) \in WarmupIds

WarmupInFlight ==
    \/ \E i \in 1..Len(c2s) : IsWarmup(c2s[i])
    \/ \E i \in 1..Len(s2c) : IsWarmup(s2c[i])

-----------------------------------------------------------------------------
(* The Pipelined driver with message counts up to the warm-up band *)

\* payload sizes: 1, and the size of the warm-up payload (a warm-up response
\* then has the length of a timed one)
BandSizes == { 1, Len(WarmupPayload) }

\* message counts: the small ones, the largest below the band, the first in it
BandCounts == (0..MaxN) \cup { WarmupBase, WarmupBase + 1 }

InitBand ==
    /\ pc = "warmup_send"
    /\ num_messages \in BandCounts
    /\ message_size \in BandSizes
    /\ max_in_flight \in 1..MaxWindow
    /\ warmup_id = 0 /\ sent_count = 0 /\ recv_count = 0 /\ msg_id = 0 /\ t_send = 0
    /\ client_send_times = EmptyMap /\ send_lats = EmptyMap
    /\ recv_lats = EmptyMap /\ rtt_lats = EmptyMap
    /\ received_ids = {} /\ error = "" /\ result = NoResult /\ sent_log = << >>
    /\ response = Bytes(<< >>) /\ outcome = NotCalled
    /\ expected_payload_len = 0 /\ expected_msg_id = None /\ verify_content = TRUE
    /\ built = NoFrame /\ row = NoRow
    /\ NetIdle
    /\ ServerIdle
    /\ ExtraIdle
    /\ PicowsIdle

\* TopUpSend, for the first MaxN messages of the run only
BandSend == TopUpSend /\ sent_count < MaxN

NextBand ==
    \/ WarmupSend
    \/ WarmupRecv
    \/ BandSend
    \/ PipelinedRecv
    \/ PipelinedFinish
    \/ ServerEcho
    \/ Redeliver

SpecBand == InitBand /\ [][NextBand]_vars

TimedIds == 0..(num_messages - 1)

TrackedIds ==
    DOMAIN client_send_times \cup DOMAIN send_lats \cup DOMAIN recv_lats
        \cup DOMAIN rtt_lats

\* A step of the warm-up loop that hands a message to ws.send.
WarmupDispatch == pc = "warmup_send" /\ Len(c2s') = Len(c2s) + 1

\* C17 as stated: for every message count N the warm-up band is disjoint
\* from [0, N), and no warm-up id is ever in received_ids, the send-time map
\* or a latency map.
C17_Original ==
    /\ [](WarmupIds \cap TimedIds = {})
    /\ [][ WarmupDispatch
              => Unpack32(SubSeq(c2s'[Len(c2s')], 1, 4)) \in WarmupIds ]_vars
    /\ [](WarmupIds \cap (received_ids \cup TrackedIds) = {})

\* C17 amended: for every N <= 9999 the ids of the warm-up messages are in a
\* band disjoint from [0, N) and no warm-up id is ever in the send-time map or
\* a latency map; a warm-up id is in received_ids only in a run that has
\* aborted on it with the out-of-range error.
C17_WarmupBand ==
    /\ [](num_messages <= WarmupBase => WarmupIds \cap TimedIds = {})
    /\ [][ WarmupDispatch
              => /\ Unpack32(SubSeq(c2s'[Len(c2s')], 1, 4)) = WarmupBase + warmup_id
                 /\ WarmupBase + warmup_id \in WarmupIds ]_vars
    /\ [](num_messages <= WarmupBase => WarmupIds \cap TrackedIds = {})
    /\ []((num_messages <= WarmupBase /\ WarmupIds \cap received_ids # {})
             => (pc = "failed" /\ error = "IdentifierOutOfRange"))

C17_Witness ==
    /\ num_messages = MaxN
    /\ pc = "failed"
    /\ error = "IdentifierOutOfRange"
    /\ WarmupIds \cap received_ids # {}
    /\ DOMAIN rtt_lats # {}
    /\ WarmupIds \cap TrackedIds = {}

-----------------------------------------------------------------------------
(* Claims about failed runs *)

\* A frame no call of the codec accepts: too short for a header, or with a
\* declared length that is not the length of what follows the header.
Malformed(f) == Len(f) < HeaderLen \/ FrameLen(f) # Len(f) - HeaderLen

\* A step in which ws.recv() returns a malformed frame to the driver.
ReceivesMalformed ==
    \E i \in 1..Len(s2c) : s2c' = RemoveAt(s2c, i) /\ Malformed(s2c[i])

\* An error found by the timed loop ends the run at that step, the run returns
\* nothing, and main() prints a latency row only for a run that returned.
TimedErrorsAbort ==
    /\ [][ (TimedReceive /\ (~outcome'.ok \/ error' # ""))
              => (pc' = "failed" /\ result' = NoResult) ]_vars
    /\ [](error # "" => (pc = "failed" /\ result = NoResult /\ row = NoRow))
    /\ [][ pc = "failed" => UNCHANGED << pc, result, row, sent_log >> ]_vars
    /\ [](row.kind = "latency"
             => /\ pc = "returned"
                /\ row.result = result
                /\ Cardinality(DOMAIN rtt_lats) = num_messages)

\* C18: a run in which a malformed frame, an identifier mismatch, a duplicate
\* or another decode error occurs is aborted and reports nothing: the driver
\* returns no result and main() prints no latency row for the run.
C18_FailedRunReportsNothing ==
    /\ [][ ReceivesMalformed => (pc' = "failed" /\ result' = NoResult) ]_vars
    /\ TimedErrorsAbort

-----------------------------------------------------------------------------
(* benchmark_picows under asyncio.wait_for in main() *)

InitPicows ==
    /\ InitRun
    /\ max_in_flight = 1
    /\ transport = "connected"
    /\ put_tasks = << >>
    /\ response_queue = << >>

\* The connection is closed at the normal end of the run only (no try/finally).
AfterExit_noFinally(how) == IF how = "returned" THEN "disconnected" ELSE "connected"

\* "finally: transport.disconnect()": the state of the connection when the
\* try block has been left, however it was left
AfterExit(how) == "disconnected"

\* The driver is suspended in "await response_queue.get()".
Suspended ==
    /\ response_queue = << >>
    /\ \/ pc = "warmup_recv"
       \/ pc = "loop" /\ msg_id >= num_messages /\ recv_count < num_messages

\* on_ws_frame: the next frame of the connection arrives; t_recv is taken
\* and a task is created that puts (t_recv, data) on response_queue
OnWsFrame ==
    /\ transport = "connected"
    /\ s2c # << >>
    /\ \E d \in 0..1 :
          /\ put_tasks' = Append(put_tasks, << Now(d), Head(s2c) >>)
          /\ clock' = Now(d)
    /\ s2c' = Tail(s2c)
    /\ UNCHANGED << transport, response_queue >>
    /\ UNCHANGED << c2s, faulted, lost >>
    /\ UNCHANGED driverVars
    /\ UNCHANGED << response, outcome, row >>
    /\ UNCHANGED argVars
    /\ UNCHANGED extraVars
    /\ UNCHANGED built
    /\ UNCHANGED serverVars

\* The event loop runs the pending tasks in any order.
RunPutTask_anyTask ==
    /\ Running
    /\ put_tasks # << >>
    /\ \E i \in 1..Len(put_tasks) :
          /\ response_queue' = Append(response_queue, put_tasks[i])
          /\ put_tasks' = RemoveAt(put_tasks, i)
    /\ UNCHANGED transport
    /\ UNCHANGED netVars
    /\ UNCHANGED driverVars
    /\ UNCHANGED << response, outcome, row >>
    /\ UNCHANGED argVars
    /\ UNCHANGED extraVars
    /\ UNCHANGED built
    /\ UNCHANGED serverVars

\* the event loop runs the oldest task: response_queue.put((t_recv, data))
\* (a task left when the driver has ended puts on a queue nobody reads)
RunPutTask ==
    /\ Running
    /\ put_tasks # << >>
    /\ response_queue' = Append(response_queue, Head(put_tasks))
    /\ put_tasks' = Tail(put_tasks)
    /\ UNCHANGED transport
    /\ UNCHANGED netVars
    /\ UNCHANGED driverVars
    /\ UNCHANGED << response, outcome, row >>
    /\ UNCHANGED argVars
    /\ UNCHANGED extraVars
    /\ UNCHANGED built
    /\ UNCHANGED serverVars

\* await response_queue.get() of the warm-up: the item is dropped unread
PicowsWarmupGet ==
    /\ pc = "warmup_recv"
    /\ response_queue # << >>
    /\ response_queue' = Tail(response_queue)
    /\ warmup_id' = warmup_id + 1
    /\ pc' = IF warmup_id + 1 < WarmupCount THEN "warmup_send" ELSE "loop"
    /\ UNCHANGED << num_messages, message_size, max_in_flight,
                    sent_count, recv_count, msg_id, t_send, client_send_times,
                    send_lats, recv_lats, rtt_lats, received_ids, error, result,
                    sent_log >>
    /\ UNCHANGED << transport, put_tasks >>
    /\ UNCHANGED netVars
    /\ UNCHANGED << response, outcome, row >>
    /\ UNCHANGED argVars
    /\ UNCHANGED extraVars
    /\ UNCHANGED built
    /\ UNCHANGED serverVars

\* for msg_id in range(num_messages): ws_transport.send(WSMsgType.BINARY, message)
PicowsSend ==
    /\ pc = "loop"
    /\ msg_id < num_messages
    /\ \E d \in 0..1 :
          /\ client_send_times' = MapPut(client_send_times, msg_id, Now(d))
          /\ clock' = Now(d)
    /\ c2s' = Append(c2s, Pack32(msg_id) \o base_message)
    /\ sent_log' = Append(sent_log, msg_id)
    /\ msg_id' = msg_id + 1
    /\ UNCHANGED << pc, num_messages, message_size, max_in_flight, warmup_id,
                    sent_count, recv_count, t_send, send_lats, recv_lats, rtt_lats,
                    received_ids, error, result >>
    /\ UNCHANGED picowsVars
    /\ UNCHANGED << s2c, faulted, lost >>
    /\ UNCHANGED << response, outcome, row >>
    /\ UNCHANGED argVars
    /\ UNCHANGED extraVars
    /\ UNCHANGED built
    /\ UNCHANGED serverVars

\* The responses are consumed while messages are still to be sent.
PicowsGet_interleaved ==
    /\ pc = "loop"
    /\ recv_count < num_messages
    /\ response_queue # << >>
    /\ LET t_recv == Head(response_queue)[1]
           data == Head(response_queue)[2]
           p == parse_and_verify_response(Bytes(data), Len(base_message), None, TRUE)
           a == Accept(p, t_recv)
       IN  /\ response' = Bytes(data)
           /\ outcome' = p
           /\ error' = a.error
           /\ received_ids' = a.received_ids
           /\ send_lats' = a.send_lats
           /\ recv_lats' = a.recv_lats
           /\ rtt_lats' = a.rtt_lats
           /\ pc' = IF a.error = "" THEN "loop" ELSE "failed"
           /\ transport' = IF a.error = "" THEN transport ELSE AfterExit("failed")
    /\ response_queue' = Tail(response_queue)
    /\ recv_count' = recv_count + 1
    /\ UNCHANGED << num_messages, message_size, max_in_flight, warmup_id,
                    sent_count, msg_id, t_send, client_send_times, result, sent_log >>
    /\ UNCHANGED put_tasks
    /\ UNCHANGED netVars
    /\ UNCHANGED row
    /\ UNCHANGED argVars
    /\ UNCHANGED extraVars
    /\ UNCHANGED built
    /\ UNCHANGED serverVars

\* for _ in range(num_messages): t_recv, response = await response_queue.get()
\* and the rest of the loop body; an exception leaves through the finally
PicowsGet ==
    /\ pc = "loop"
    /\ msg_id >= num_messages
    /\ recv_count < num_messages
    /\ response_queue # << >>
    /\ LET t_recv == Head(response_queue)[1]
           data == Head(response_queue)[2]
           p == parse_and_verify_response(Bytes(data), Len(base_message), None, TRUE)
           a == Accept(p, t_recv)
       IN  /\ response' = Bytes(data)
           /\ outcome' = p
           /\ error' = a.error
           /\ received_ids' = a.received_ids
           /\ send_lats' = a.send_lats
           /\ recv_lats' = a.recv_lats
           /\ rtt_lats' = a.rtt_lats
           /\ pc' = IF a.error = "" THEN "loop" ELSE "failed"
           /\ transport' = IF a.error = "" THEN transport ELSE AfterExit("failed")
    /\ response_queue' = Tail(response_queue)
    /\ recv_count' = recv_count + 1
    /\ UNCHANGED << num_messages, message_size, max_in_flight, warmup_id,
                    sent_count, msg_id, t_send, client_send_times, result, sent_log >>
    /\ UNCHANGED put_tasks
    /\ UNCHANGED netVars
    /\ UNCHANGED row
    /\ UNCHANGED argVars
    /\ UNCHANGED extraVars
    /\ UNCHANGED built
    /\ UNCHANGED serverVars

\* both loops are done: finally, the completeness test, the return value
PicowsFinish ==
    /\ pc = "loop"
    /\ msg_id >= num_messages
    /\ recv_count >= num_messages
    /\ LET c == Completed("picows") IN
          /\ error' = c.error
          /\ result' = c.result
          /\ pc' = IF c.error = "" THEN "returned" ELSE "failed"
          /\ transport' = AfterExit(IF c.error = "" THEN "returned" ELSE "failed")
    /\ UNCHANGED << num_messages, message_size, max_in_flight, warmup_id,
                    sent_count, recv_count, msg_id, t_send, client_send_times,
                    send_lats, recv_lats, rtt_lats, received_ids, sent_log >>
    /\ UNCHANGED << put_tasks, response_queue >>
    /\ UNCHANGED netVars
    /\ UNCHANGED << response, outcome, row >>
    /\ UNCHANGED argVars
    /\ UNCHANGED extraVars
    /\ UNCHANGED built
    /\ UNCHANGED serverVars

\* asyncio.wait_for(..., timeout=60.0) expires while the driver is suspended:
\* CancelledError is raised at the await and leaves through the finally
Timeout ==
    /\ Suspended
    /\ pc' = "cancelled"
    /\ error' = "CancelledError"
    /\ transport' = AfterExit("cancelled")
    /\ UNCHANGED << num_messages, message_size, max_in_flight, warmup_id,
                    sent_count, recv_count, msg_id, t_send, client_send_times,
                    send_lats, recv_lats, rtt_lats, received_ids, result, sent_log >>
    /\ UNCHANGED << put_tasks, response_queue >>
    /\ UNCHANGED netVars
    /\ UNCHANGED << response, outcome, row >>
    /\ UNCHANGED argVars
    /\ UNCHANGED extraVars
    /\ UNCHANGED built
    /\ UNCHANGED serverVars

\* ws_transport.send raises (the connection is gone): the exception leaves
\* through the finally
SendRaises ==
    /\ CanFault
    /\ pc = "warmup_send" \/ (pc = "loop" /\ msg_id < num_messages)
    /\ pc' = "failed"
    /\ error' = "TransportError"
    /\ transport' = AfterExit("failed")
    /\ faulted' = TRUE
    /\ UNCHANGED << num_messages, message_size, max_in_flight, warmup_id,
                    sent_count, recv_count, msg_id, t_send, client_send_times,
                    send_lats, recv_lats, rtt_lats, received_ids, result, sent_log >>
    /\ UNCHANGED << put_tasks, response_queue >>
    /\ UNCHANGED << c2s, s2c, clock, lost >>
    /\ UNCHANGED << response, outcome, row >>
    /\ UNCHANGED argVars
    /\ UNCHANGED extraVars
    /\ UNCHANGED built
    /\ UNCHANGED serverVars

\* main(): try: result = await asyncio.wait_for(benchmark_picows(...)); print
\* the latency row / except TimeoutError: print ERROR / except Exception: print ERROR
PicowsMainPrint ==
    /\ pc \in { "returned", "failed", "cancelled" }
    /\ row = NoRow
    /\ row' = IF pc = "returned" THEN LatencyRow(result)
              ELSE IF pc = "cancelled" THEN ErrorRow("TimeoutError")
              ELSE ErrorRow(error)
    /\ UNCHANGED driverVars
    /\ UNCHANGED picowsVars
    /\ UNCHANGED netVars
    /\ UNCHANGED << response, outcome >>
    /\ UNCHANGED argVars
    /\ UNCHANGED extraVars
    /\ UNCHANGED built
    /\ UNCHANGED serverVars

NextPicows ==
    \/ WarmupSend
    \/ PicowsWarmupGet
    \/ PicowsSend
    \/ PicowsGet
    \/ PicowsFinish
    \/ OnWsFrame
    \/ RunPutTask
    \/ Timeout
    \/ SendRaises
    \/ PicowsMainPrint
    \/ ServerEcho
    \/ Redeliver
    \/ Lose
    \/ Corrupt
    \/ Truncate

SpecPicows == InitPicows /\ [][NextPicows]_vars

-----------------------------------------------------------------------------
(* Claims about the picows driver *)

Ended == pc \in { "returned", "failed", "cancelled" }

\* C19: the driver releases its connection on every exit path after a
\* successful connect (normal completion, protocol or decode error, transport
\* error, cancellation at an await by the timeout of main()), and an aborted
\* run is reported as failed: it returns nothing and main() prints an ERROR
\* row, never a latency row.
C19_ConnectionReleased ==
    /\ [](Ended => transport = "disconnected")
    /\ [](Running => transport = "connected")
    /\ [][ (Running /\ ~Running') => (Ended' /\ transport' = "disconnected") ]_vars
    /\ [](pc \in { "failed", "cancelled" }
             => (error # "" /\ result = NoResult /\ row.kind # "latency"))
    /\ [](row.kind = "latency" => (pc = "returned" /\ row.result = result))
    /\ [](row.kind = "error"
             => /\ pc \in { "failed", "cancelled" }
                /\ row.what = (IF pc = "cancelled" THEN "TimeoutError" ELSE error))

C19_Witness ==
    /\ pc = "cancelled"
    /\ transport = "disconnected"
    /\ row = ErrorRow("TimeoutError")
    /\ DOMAIN rtt_lats # {}
    /\ Cardinality(DOMAIN rtt_lats) < num_messages
    /\ lost # None

-----------------------------------------------------------------------------
(* Claims about retries *)

\* C20: within a run each timed id in [0, N) is handed to ws.send at most
\* once, the ids are dispatched in increasing order from 0, and after a
\* failure no message is sent again.
C20_NoRetry ==
    /\ [](/\ Len(sent_log) <= num_messages
          /\ \A i \in 1..Len(sent_log) : sent_log[i] = i - 1)
    /\ [][ sent_log' # sent_log
              => /\ error = ""
                 /\ sent_log' = Append(sent_log, Len(sent_log))
                 /\ Len(c2s') = Len(c2s) + 1
                 /\ Unpack32(SubSeq(c2s'[Len(c2s')], 1, 4)) = Len(sent_log) ]_vars
    /\ [][ pc = "failed" => UNCHANGED << sent_log, c2s, sent_count, pc >> ]_vars

C20_Witness ==
    /\ pc = "failed"
    /\ sent_log = << 0, 1 >>
    /\ DOMAIN rtt_lats = {}
    /\ c2s = << >>
    /\ s2c # << >>

-----------------------------------------------------------------------------
(* Batch mode: benchmark_rust_batch (tests/benchmark_optimized.py) and     *)
(* measure_latency_batch (tests/benchmark_latency.py) against the plain    *)
(* echo server start_echo_server of those files.                           *)

MaxBatch == 2      \* batch_size ranges over 0..MaxBatch
MaxBatchN == 4     \* Batch drivers: num_messages ranges over 0..MaxBatchN

\* A Python float that is a quotient of integers, kept exact: num / den in
\* lowest terms with den > 0.
Abs(x) == IF x < 0 THEN -x ELSE x

RECURSIVE GCD(_, _)
GCD(a, b) == IF b = 0 THEN a ELSE GCD(b, a % b)

Ratio(n, d) ==
    LET g == GCD(Abs(n), d)
    IN  [ num |-> n \div g, den |-> d \div g ]

RAdd(x, y) == Ratio(x.num * y.den + y.num * x.den, x.den * y.den)

RSub(x, y) == Ratio(x.num * y.den - y.num * x.den, x.den * y.den)

RMul(x, y) == Ratio(x.num * y.num, x.den * y.den)

\* x / k for an integer k > 0
RDivInt(x, k) == Ratio(x.num, x.den * k)

RECURSIVE RSum(_)
RSum(xs) == IF xs = << >> THEN Ratio(0, 1) ELSE RAdd(Head(xs), RSum(Tail(xs)))

\* statistics.stdev(xs) squared (the sample variance), Len(xs) > 1
Variance(xs) ==
    LET mean == RDivInt(RSum(xs), Len(xs))
        sq == [ i \in 1..Len(xs) |-> RMul(RSub(xs[i], mean), RSub(xs[i], mean)) ]
    IN  RDivInt(RSum(sq), Len(xs) - 1)

BatchDrivers == { "benchmark_rust_batch", "measure_latency_batch" }

InitBatch ==
    /\ pc = "warmup_send"
    /\ num_messages \in 0..MaxBatchN     \* num_messages / num_samples
    /\ message_size \in MessageSizes
    /\ driver \in BatchDrivers
    /\ batch_size \in 0..MaxBatch
    /\ num_batches = 0 /\ batch_index = 0
    /\ start = 0 /\ batch_start = 0 /\ send_start = 0 /\ latencies = << >>
    /\ dispatched = 0 /\ bursts = 0
    /\ max_in_flight = 1 /\ warmup_id = 0 /\ sent_count = 0 /\ recv_count = 0
    /\ msg_id = 0 /\ t_send = 0
    /\ client_send_times = EmptyMap /\ send_lats = EmptyMap
    /\ recv_lats = EmptyMap /\ rtt_lats = EmptyMap
    /\ received_ids = {} /\ response = << >> /\ outcome = NotCalled
    /\ error = "" /\ result = NoResult /\ sent_log = << >>
    /\ c2s = << >> /\ s2c = << >> /\ clock = 0 /\ faulted = FALSE /\ lost = None
    /\ expected_payload_len = 0 /\ expected_msg_id = None /\ verify_content = FALSE
    /\ built = NoFrame /\ row = NoRow
    /\ ServerIdle
    /\ PicowsIdle
    /\ StatIdle
    /\ CompareIdle
    /\ PatchIdle
    /\ AppIdle

\* What a step of a Batch driver leaves alone.
BatchFrame ==
    /\ UNCHANGED << max_in_flight, warmup_id, sent_count, recv_count, msg_id,
                    t_send, client_send_times, send_lats, recv_lats, rtt_lats,
                    received_ids, sent_log >>
    /\ UNCHANGED << num_messages, message_size, driver, batch_size >>
    /\ UNCHANGED << faulted, lost, response, outcome >>
    /\ UNCHANGED argVars
    /\ UNCHANGED << built, row >>
    /\ UNCHANGED serverVars
    /\ UNCHANGED picowsVars
    /\ UNCHANGED appVars
    /\ UNCHANGED statVars
    /\ UNCHANGED compareVars
    /\ UNCHANGED patchVars

\* "a" * message_size
batch_message == Repeat("a", message_size)

\* ws.send_batch(messages): the messages are handed to the connection
\* together, in order
send_batch(wire, messages) == wire \o messages

\* ws.receive_batch(n) returns when n messages have arrived
receive_batch_ready(wire, n) == Len(wire) >= n

\* start_echo_server.echo: "async for message in websocket:
\* await websocket.send(message)"
PlainEcho ==
    /\ pc \in { "warmup_recv", "recv" }
    /\ c2s # << >>
    /\ s2c' = Append(s2c, Head(c2s))
    /\ c2s' = Tail(c2s)
    /\ \E d \in 0..1 : clock' = Now(d)
    /\ UNCHANGED << pc, error, result >>
    /\ UNCHANGED << num_batches, batch_index, start, batch_start, send_start,
                    latencies, dispatched, bursts >>
    /\ BatchFrame

\* ws.send_batch(["warmup"] * 10)
BatchWarmupSend ==
    /\ pc = "warmup_send"
    /\ c2s' = send_batch(c2s, Repeat("warmup", WarmupCount))
    /\ pc' = "warmup_recv"
    /\ UNCHANGED << s2c, clock, error, result >>
    /\ UNCHANGED << num_batches, batch_index, start, batch_start, send_start,
                    latencies, dispatched, bursts >>
    /\ BatchFrame

\* ws.receive_batch(10), then "num_batches = num_messages // batch_size"
\* (a ZeroDivisionError leaves through "finally: ws.close()")
BatchWarmupRecv ==
    /\ pc = "warmup_recv"
    /\ receive_batch_ready(s2c, WarmupCount)
    /\ s2c' = Drop(s2c, WarmupCount)
    /\ IF batch_size = 0
       THEN /\ pc' = "failed"
            /\ error' = "ZeroDivisionError"
            /\ UNCHANGED num_batches
       ELSE /\ pc' = "loop"
            /\ num_batches' = num_messages \div batch_size
            /\ UNCHANGED error
    /\ UNCHANGED << c2s, clock, result >>
    /\ UNCHANGED << batch_index, start, batch_start, send_start, latencies,
                    dispatched, bursts >>
    /\ BatchFrame


\* One sample per burst instead of one per message.
BatchSamples_oneSample(batch_time) == << Ratio(batch_time, batch_size) >>

\* benchmark_rust_batch: "[batch_time / batch_size] * batch_size"
BatchSamples(batch_time) == Repeat(Ratio(batch_time, batch_size), batch_size)

\* measure_latency_batch: the dict appended for one burst
BatchRecord(send_end) ==
    LET total_latency == (send_end - batch_start) * 1000
    IN  [ wait |-> (send_start - batch_start) * 1000,
          send |-> (send_end - send_start) * 1000,
          total |-> total_latency,
          per_msg |-> Ratio(total_latency, batch_size) ]

\* The top of one iteration up to the call of send_batch.
\* benchmark_rust_batch: start = perf_counter(); ws.send_batch(messages).
\* measure_latency_batch: batch_start = perf_counter(); the messages are
\* collected with a sleep between them; send_start = perf_counter();
\* ws.send_batch(messages).
BatchSend ==
    /\ pc = "loop"
    /\ batch_index < num_batches
    /\ IF driver = "benchmark_rust_batch"
       THEN \E d \in 0..1 :
               /\ start' = Now(d)
               /\ clock' = Now(d)
               /\ UNCHANGED << batch_start, send_start >>
       ELSE \E d1 \in 0..1, d2 \in 0..1 :
               /\ batch_start' = Now(d1)
               /\ send_start' = Min(Now(d1) + d2, MaxClock)
               /\ clock' = Min(Now(d1) + d2, MaxClock)
               /\ UNCHANGED start
    /\ c2s' = send_batch(c2s, Repeat(batch_message, batch_size))
    /\ dispatched' = dispatched + batch_size
    /\ bursts' = bursts + 1
    /\ pc' = "recv"
    /\ UNCHANGED << s2c, error, result >>
    /\ UNCHANGED << num_batches, batch_index, latencies >>
    /\ BatchFrame

\* ws.receive_batch(batch_size), the reading of the clock after it and the
\* samples of the burst
BatchRecv ==
    /\ pc = "recv"
    /\ receive_batch_ready(s2c, batch_size)
    /\ s2c' = Drop(s2c, batch_size)
    /\ \E d \in 0..1 :
          /\ clock' = Now(d)
          /\ latencies' =
                IF driver = "benchmark_rust_batch"
                THEN latencies \o BatchSamples((Now(d) - start) * 1000)
                ELSE Append(latencies, BatchRecord(Now(d)))
    /\ batch_index' = batch_index + 1
    /\ pc' = "loop"
    /\ UNCHANGED << c2s, error, result >>
    /\ UNCHANGED << num_batches, start, batch_start, send_start, dispatched,
                    bursts >>
    /\ BatchFrame

\* The dict benchmark_rust_batch returns; std_ms holds the square of
\* statistics.stdev(latencies).
BatchResult ==
    [ impl |-> << "Rust Batch", batch_size >>,
      avg_ms |-> RDivInt(RSum(latencies), Len(latencies)),
      std_ms |-> IF Len(latencies) > 1 THEN Variance(latencies) ELSE Ratio(0, 1) ]

\* The loop is over: "finally: ws.close()" and the return statement.
\* benchmark_rust_batch divides by len(latencies); measure_latency_batch
\* returns the list latencies.
BatchFinish ==
    /\ pc = "loop"
    /\ batch_index = num_batches
    /\ IF driver = "benchmark_rust_batch"
       THEN IF latencies = << >>
            THEN /\ pc' = "failed"
                 /\ error' = "ZeroDivisionError"
                 /\ UNCHANGED result
            ELSE /\ pc' = "returned"
                 /\ result' = BatchResult
                 /\ UNCHANGED error
       ELSE /\ pc' = "returned"
            /\ UNCHANGED << error, result >>
    /\ UNCHANGED << c2s, s2c, clock >>
    /\ UNCHANGED << num_batches, batch_index, start, batch_start, send_start,
                    latencies, dispatched, bursts >>
    /\ BatchFrame

NextBatch ==
    \/ BatchWarmupSend
    \/ BatchWarmupRecv
    \/ BatchSend
    \/ BatchRecv
    \/ BatchFinish
    \/ PlainEcho

SpecBatch == InitBatch /\ [][NextBatch]_vars


-----------------------------------------------------------------------------
(* Claims about Batch mode *)

\* A timed burst is dispatched in this step.
BurstStarts == pc = "loop" /\ pc' = "recv"

\* The responses of a timed burst are taken in this step.
BurstEnds == pc = "recv" /\ pc' = "loop"

\* The samples this step appends to latencies.
NewSamples == SubSeq(latencies', Len(latencies) + 1, Len(latencies'))

\* The per-message latency a sample stands for.
PerMessage(x) == IF driver = "benchmark_rust_batch" THEN x ELSE x.per_msg

\* The duration in ms measured for the burst that ends in this step.
BurstDuration ==
    IF driver = "benchmark_rust_batch"
    THEN (clock' - start) * 1000
    ELSE (clock' - batch_start) * 1000

\* A burst of batch_size messages goes out when nothing is outstanding, and
\* the step that ends it takes exactly batch_size responses and leaves
\* nothing outstanding.
BurstThenResponses ==
    /\ [][ BurstStarts => /\ c2s = << >> /\ s2c = << >>
                          /\ c2s' = Repeat(batch_message, batch_size) ]_vars
    /\ [][ BurstEnds => /\ Len(s2c) - Len(s2c') = batch_size
                        /\ c2s' = << >> /\ s2c' = << >> ]_vars

\* C21 as stated: in Batch mode each iteration dispatches batch_size messages
\* as one burst, then receives exactly batch_size responses before the next
\* burst, and records batch_size samples equal to the burst duration divided
\* by batch_size (for both Batch drivers).
C21_Original ==
    /\ BurstThenResponses
    /\ [][ BurstEnds =>
             /\ Len(NewSamples) = batch_size
             /\ \A i \in 1..Len(NewSamples) :
                   PerMessage(NewSamples[i]) = Ratio(BurstDuration, batch_size)
         ]_vars

\* C21 (amended): each iteration dispatches batch_size messages as one burst
\* and receives exactly batch_size responses before the next burst;
\* benchmark_rust_batch then records batch_size samples, each the burst
\* duration divided by batch_size, and measure_latency_batch records one
\* record whose per_msg is the burst's total duration divided by batch_size.
C21_Burst ==
    /\ BurstThenResponses
    /\ [][ BurstEnds =>
             /\ Len(NewSamples) =
                   IF driver = "benchmark_rust_batch" THEN batch_size ELSE 1
             /\ \A i \in 1..Len(NewSamples) :
                   PerMessage(NewSamples[i]) = Ratio(BurstDuration, batch_size)
         ]_vars

\* Two bursts of two messages, the second of which took one tick.
C21_Witness ==
    /\ driver = "benchmark_rust_batch"
    /\ batch_size = 2 /\ bursts = 2 /\ pc = "loop"
    /\ Len(latencies) = 4
    /\ latencies[1] = Ratio(0, 2)
    /\ latencies[3] = Ratio(1000, 2) /\ latencies[4] = Ratio(1000, 2)


\* C22: for every N >= 1 and batch_size >= 1 a run of benchmark_rust_batch
\* ends by returning summary statistics, having dispatched N timed messages
\* and recorded N latency samples.
C22_ExchangesN ==
    ( /\ driver = "benchmark_rust_batch"
      /\ num_messages >= 1 /\ batch_size >= 1
      /\ pc \in { "returned", "failed" } )
    => /\ pc = "returned"
       /\ result = BatchResult
       /\ dispatched = num_messages
       /\ Len(latencies) = num_messages

\* What the code does: num_batches * batch_size messages, the multiple of
\* batch_size below N; no statistics when that is none.
BatchExchangesWholeBursts ==
    ( /\ driver = "benchmark_rust_batch"
      /\ batch_size >= 1
      /\ pc \in { "returned", "failed" } )
    => /\ dispatched = (num_messages \div batch_size) * batch_size
       /\ Len(latencies) = dispatched
       /\ (pc = "failed") = (num_messages < batch_size)
       /\ pc = "returned" => result = BatchResult


-----------------------------------------------------------------------------
(* percentile (tests/benchmark_latency.py) *)

MaxSamples == 4    \* len(data) ranges over 0..MaxSamples
MaxValue == 3      \* the samples range over 1..MaxValue

\* sorted(): x put at its place in an ascending list, after its equals
RECURSIVE Insert(_, _)
Insert(x, xs) ==
    IF xs = << >> THEN << x >>
    ELSE IF x < Head(xs) THEN << x >> \o xs
    ELSE << Head(xs) >> \o Insert(x, Tail(xs))

RECURSIVE sorted(_)
sorted(xs) ==
    IF xs = << >> THEN << >>
    ELSE Insert(xs[Len(xs)], sorted(SubSeq(xs, 1, Len(xs) - 1)))

\* The rank is rounded up and made an index: ceil(len * percent / 100) - 1.
percentile_ceilRank(d, pct) ==
    LET sorted_data == sorted(d)
        rank == (Len(sorted_data) * pct + 99) \div 100
        index == IF rank = 0 THEN 0 ELSE rank - 1
    IN  IF sorted_data = << >>
        THEN CallOut("raised", 0, "IndexError")
        ELSE CallOut("returned", sorted_data[index + 1], "")

\* percentile(data, percent) for an integer percent >= 0; sorted_data[k] of
\* Python is sorted_data[k + 1] here, and sorted_data[-1] of an empty list
\* raises IndexError
percentile(d, pct) ==
    LET sorted_data == sorted(d)
        index == (Len(sorted_data) * pct) \div 100
    IN  IF index >= Len(sorted_data)
        THEN IF sorted_data = << >>
             THEN CallOut("raised", 0, "IndexError")
             ELSE CallOut("returned", sorted_data[Len(sorted_data)], "")
        ELSE CallOut("returned", sorted_data[index + 1], "")

Percents == { 0, 1, 25, 50, 75, 95, 99, 100 }

SampleLists ==
    UNION { [ 1..n -> 1..MaxValue ] : n \in 0..MaxSamples }
    \cup { << 1, 2, 3, 4, 5 >>, << 5, 3, 1, 4, 2 >> }

\* No benchmark of benchmark_server_timestamp.py runs.
NoRun ==
    /\ pc = "idle"
    /\ num_messages = 0 /\ message_size = 1 /\ max_in_flight = 1
    /\ warmup_id = 0 /\ sent_count = 0 /\ recv_count = 0 /\ msg_id = 0 /\ t_send = 0
    /\ client_send_times = EmptyMap /\ send_lats = EmptyMap
    /\ recv_lats = EmptyMap /\ rtt_lats = EmptyMap
    /\ received_ids = {} /\ error = "" /\ result = NoResult /\ sent_log = << >>
    /\ response = Bytes(<< >>) /\ outcome = NotCalled
    /\ c2s = << >> /\ s2c = << >> /\ clock = 0
    /\ faulted = FALSE /\ lost = None
    /\ expected_payload_len = 0 /\ expected_msg_id = None /\ verify_content = TRUE
    /\ built = NoFrame /\ row = NoRow
    /\ ServerIdle
    /\ PicowsIdle

\* What a step outside benchmark_server_timestamp.py leaves alone.
RunFrame ==
    /\ UNCHANGED driverVars
    /\ UNCHANGED netVars
    /\ UNCHANGED << response, outcome >>
    /\ UNCHANGED argVars
    /\ UNCHANGED << built, row >>
    /\ UNCHANGED serverVars
    /\ UNCHANGED picowsVars

InitPercentile ==
    /\ NoRun
    /\ BatchIdle
    /\ sample_data \in SampleLists
    /\ percent \in Percents
    /\ percentile_out = CallOut("not called", 0, "")
    /\ CompareIdle
    /\ PatchIdle
    /\ AppIdle

\* percentile(data, percent) is called
CallPercentile ==
    /\ percentile_out.kind = "not called"
    /\ percentile_out' = percentile(sample_data, percent)
    /\ UNCHANGED << sample_data, percent >>
    /\ UNCHANGED batchVars
    /\ UNCHANGED compareVars
    /\ UNCHANGED patchVars
    /\ RunFrame
    /\ UNCHANGED appVars

NextPercentile == CallPercentile

SpecPercentile == InitPercentile /\ [][NextPercentile]_vars

-----------------------------------------------------------------------------
(* Claims about percentile *)

\* The samples below v, and those not above v.
Below(d, v) == Cardinality({ i \in 1..Len(d) : d[i] < v })

UpTo(d, v) == Cardinality({ i \in 1..Len(d) : d[i] <= v })

\* v is the element at (0-based) index k of d in ascending order.
IsAtRank(d, v, k) ==
    /\ \E i \in 1..Len(d) : d[i] = v
    /\ Below(d, v) <= k
    /\ k < UpTo(d, v)

\* min(floor(count * p / 100), count - 1)
NearestRank(count, p) == Min((count * p) \div 100, count - 1)

\* C23: for every non-empty sample list and every p in [0, 100],
\* percentile(data, p) returns the element of the ascending-sorted samples at
\* index min(floor(count * p / 100), count - 1), with no interpolation; for
\* [1,2,3,4,5] P95 is 5.
C23_NearestRank ==
    ( percentile_out.kind # "not called" /\ sample_data # << >> )
    => /\ percentile_out.kind = "returned"
       /\ IsAtRank(sample_data, percentile_out.value,
                   NearestRank(Len(sample_data), percent))
       /\ ( sample_data = << 1, 2, 3, 4, 5 >> /\ percent = 95 )
             => percentile_out.value = 5

\* P95 of the samples 5, 3, 1, 4, 2 has been computed, and is 5.
C23_Witness ==
    /\ sample_data = << 5, 3, 1, 4, 2 >> /\ percent = 95
    /\ percentile_out = CallOut("returned", 5, "")


-----------------------------------------------------------------------------
(* The comparisons: calculate_relative_performance (benchmark.py) and the  *)
(* percentage printed by main() of tests/benchmark_optimized.py            *)

Means == { 0, 5, 10 }          \* mean latencies, ms
Throughputs == { 0, 1, 4 }     \* throughputs, Mbps

\* The percentages are taken the other way round: Rust against the other.
calculate_relative_performance_inverted(rust, other) ==
    IF other.avg_latency_ms = 0 \/ other.throughput_mbps = 0
    THEN CallOut("raised", NoComparison, "ZeroDivisionError")
    ELSE CallOut("returned",
                 ComparisonResult(rust.message_size, other.implementation,
                    Ratio(rust.avg_latency_ms * 100, other.avg_latency_ms),
                    Ratio(rust.throughput_mbps * 100, other.throughput_mbps)),
                 "")

\* calculate_relative_performance(rust_result, other_result); a division by
\* 0.0 raises ZeroDivisionError
calculate_relative_performance(rust, other) ==
    IF rust.avg_latency_ms = 0 \/ rust.throughput_mbps = 0
    THEN CallOut("raised", NoComparison, "ZeroDivisionError")
    ELSE CallOut("returned",
                 ComparisonResult(rust.message_size, other.implementation,
                    Ratio(other.avg_latency_ms * 100, rust.avg_latency_ms),
                    Ratio(other.throughput_mbps * 100, rust.throughput_mbps)),
                 "")

\* main() of benchmark_optimized.py: "relative = (baseline /
\* result['avg_ms']) * 100", baseline being the avg_ms of Python Native
main_relative(base, avg) ==
    IF avg = 0
    THEN CallOut("raised", NoPercentage, "ZeroDivisionError")
    ELSE CallOut("returned", Ratio(base * 100, avg), "")

InitCompare ==
    /\ NoRun
    /\ BatchIdle
    /\ StatIdle
    /\ \E m \in Means, t \in Throughputs :
          rust_result = Summary("Rust", 1, m, t)
    /\ \E m \in Means, t \in Throughputs :
          other_result = Summary("Python Native", 1, m, t)
    /\ comparison = CallOut("not called", NoComparison, "")
    /\ baseline \in Means
    /\ avg_ms \in Means
    /\ relative = CallOut("not called", NoPercentage, "")
    /\ PatchIdle
    /\ AppIdle

\* run_benchmarks: calculate_relative_performance(rust_result, python_result)
CallCompare ==
    /\ comparison.kind = "not called"
    /\ comparison' = calculate_relative_performance(rust_result, other_result)
    /\ UNCHANGED << rust_result, other_result, baseline, avg_ms, relative >>
    /\ UNCHANGED batchVars
    /\ UNCHANGED statVars
    /\ UNCHANGED patchVars
    /\ RunFrame
    /\ UNCHANGED appVars

\* main() of benchmark_optimized.py computes and prints relative
MainRelative ==
    /\ relative.kind = "not called"
    /\ relative' = main_relative(baseline, avg_ms)
    /\ UNCHANGED << rust_result, other_result, comparison, baseline, avg_ms >>
    /\ UNCHANGED batchVars
    /\ UNCHANGED statVars
    /\ UNCHANGED patchVars
    /\ RunFrame
    /\ UNCHANGED appVars

NextCompare == CallCompare \/ MainRelative

SpecCompare == InitCompare /\ [][NextCompare]_vars

-----------------------------------------------------------------------------
(* Claims about the comparisons *)

\* The quotient q is a / b * 100.
IsPercentOf(q, a, b) == q.den > 0 /\ q.num * b = a * 100 * q.den

\* calculate_relative_performance: the baseline is rust_result, the
\* candidate other_result.
ComparatorPercentages ==
    comparison.kind = "returned"
    => /\ IsPercentOf(comparison.value.latency_percentage,
                      other_result.avg_latency_ms, rust_result.avg_latency_ms)
       /\ IsPercentOf(comparison.value.throughput_percentage,
                      other_result.throughput_mbps, rust_result.throughput_mbps)
       /\ ( rust_result.avg_latency_ms = 10 /\ other_result.avg_latency_ms = 5 )
             => comparison.value.latency_percentage = [ num |-> 50, den |-> 1 ]

\* C24 as stated: every relative latency percentage the harness reports is
\* candidate.mean / baseline.mean * 100, and the relative throughput
\* percentage is candidate.throughput / baseline.throughput * 100; in
\* benchmark_optimized.py the baseline is Python Native (baseline) and the
\* candidate the Rust run (avg_ms).
C24_Original ==
    /\ ComparatorPercentages
    /\ ( relative.kind = "returned" /\ baseline > 0 )
          => IsPercentOf(relative.value, avg_ms, baseline)

\* C24 (amended): calculate_relative_performance reports candidate.mean /
\* baseline.mean * 100 and candidate.throughput / baseline.throughput * 100;
\* the percentage printed by main() of benchmark_optimized.py is the inverse,
\* baseline.mean / candidate.mean * 100.
C24_Relative ==
    /\ ComparatorPercentages
    /\ relative.kind = "returned" => IsPercentOf(relative.value, baseline, avg_ms)

\* Baseline mean 10 ms and candidate mean 5 ms: the comparator gives 50%,
\* main() of benchmark_optimized.py 200%.
C24_Witness ==
    /\ rust_result.avg_latency_ms = 10 /\ other_result.avg_latency_ms = 5
    /\ comparison.kind = "returned"
    /\ comparison.value.latency_percentage = [ num |-> 50, den |-> 1 ]
    /\ baseline = 10 /\ avg_ms = 5
    /\ relative = CallOut("returned", [ num |-> 200, den |-> 1 ], "")


-----------------------------------------------------------------------------
(* websocket_rs.patch: patch_all, unpatch_all, patch_context; and the       *)
(* import statement of the interpreter                                     *)

\* What an attribute holds: nothing ("absent"), the library's own object,
\* the object the import hook's loader put there, the object a patch_*
\* function put there, or None.
AttrValues == { "absent", "library", "hook", "patch", "None" }

\* hasattr(websockets, 'sync'): the submodule has been imported, or the
\* module is the loader's replacement, which carries its own sync.client
HasSync(mods) == mods["websockets.sync"] # "none" \/ mods["websockets"] = "hook"

\* websockets.sync.client can be reached from the module websockets
HasSyncClient(mods) ==
    mods["websockets.sync.client"] # "none" \/ mods["websockets"] = "hook"

\* getattr(module, name, None)
GetAttrOrNone(v) == IF v = "absent" THEN "None" ELSE v

\* The part of the interpreter a patch function reads and writes, and the
\* exception that stopped it ("" if none).
PyState(a, o, e) == [ attrs |-> a, orig |-> o, exc |-> e ]

\* patch_websockets_sync(): lines 41-52, then lines 55-59
patch_websockets_sync(mods, st) ==
    IF mods["websockets"] # "none" /\ HasSync(mods)
    THEN IF ~HasSyncClient(mods)
         THEN PyState(st.attrs, st.orig, "AttributeError")
         ELSE PyState(
                 [ st.attrs EXCEPT !["websockets.sync.client.connect"] = "patch",
                                   !["websockets.sync.client.WebSocket"] = "patch" ],
                 [ st.orig EXCEPT
                     !["websockets.sync.client.connect"] =
                        GetAttrOrNone(st.attrs["websockets.sync.client.connect"]),
                     !["websockets.sync.client.WebSocket"] =
                        GetAttrOrNone(st.attrs["websockets.sync.client.WebSocket"]),
                     !["websockets.sync.client"] =
                        IF mods["websockets.sync.client"] # "none"
                        THEN "patch" ELSE @ ],
                 "")
    ELSE st

\* patch_websocket_client(): lines 201-209
patch_websocket_client(mods, st) ==
    IF mods["websocket"] # "none"
    THEN PyState(
            [ st.attrs EXCEPT !["websocket.WebSocketApp"] = "patch",
                              !["websocket.WebSocket"] = "patch",
                              !["websocket.create_connection"] = "patch" ],
            [ st.orig EXCEPT
                !["websocket.WebSocketApp"] =
                   GetAttrOrNone(st.attrs["websocket.WebSocketApp"]),
                !["websocket.WebSocket"] =
                   GetAttrOrNone(st.attrs["websocket.WebSocket"]),
                !["websocket.create_connection"] =
                   GetAttrOrNone(st.attrs["websocket.create_connection"]) ],
            "")
    ELSE st

\* One "if ... in sys.modules" block of patch_websockets_async: the attribute
\* is read without a default
PatchAsyncAttr(present, a, st) ==
    IF st.exc # "" \/ ~present THEN st
    ELSE IF st.attrs[a] = "absent"
         THEN PyState(st.attrs, st.orig, "AttributeError")
         ELSE PyState([ st.attrs EXCEPT ![a] = "patch" ],
                      [ st.orig EXCEPT ![a] = st.attrs[a] ], "")

\* patch_websockets_async(): lines 110-118
patch_websockets_async(mods, st) ==
    PatchAsyncAttr(mods["websockets.client"] # "none", "websockets.client.connect",
       PatchAsyncAttr(mods["websockets"] # "none", "websockets.connect", st))

\* The body of patch_all after the test of _patched: the patch functions in
\* the order the dict of results calls them; an exception ends the call.
patch_all_body(mods, st, include_async) ==
    LET s1 == patch_websockets_sync(mods, st)
        s2 == IF s1.exc # "" THEN s1 ELSE patch_websocket_client(mods, s1)
    IN  IF s2.exc # "" \/ ~include_async THEN s2
        ELSE patch_websockets_async(mods, s2)

\* One restoring assignment of unpatch_all.
Restore(present, a, o, at) ==
    IF present /\ o[a] # "unset" THEN o[a] ELSE at[a]

\* The attributes after the restoring part of unpatch_all (lines 257-279):
\* websockets.client.connect is not among the attributes it assigns.
unpatch_all_attrs(mods, at, o) ==
    [ a \in AttrNames |->
        IF a \in { "websockets.sync.client.connect",
                   "websockets.sync.client.WebSocket" }
        THEN Restore(mods["websockets.sync.client"] # "none", a, o, at)
        ELSE IF a = "websockets.connect"
        THEN Restore(mods["websockets"] # "none", a, o, at)
        ELSE IF a = "websockets.client.connect"
        THEN at[a]
        ELSE Restore(mods["websocket"] # "none", a, o, at) ]

\* A call of the API: its name, its arguments, how it ended ("returned",
\* "no effect" for the early return of a redundant call, "raised") and what
\* it returned or raised.
Call(name, arg, how, value) ==
    [ name |-> name, arg |-> arg, how |-> how, value |-> value ]

\* The arguments of patch_all
PatchArgs(include_async, force) ==
    [ include_async |-> include_async, force |-> force ]

ArgText(args) ==
    IF args.include_async
    THEN IF args.force THEN "include_async=True, force=True"
         ELSE "include_async=True"
    ELSE IF args.force THEN "force=True" ELSE ""

\* The test of _patched is missing: a call without force patches again.
DoPatchAll_noGuard(include_async, force) ==
    LET st == patch_all_body(sys_modules, PyState(attrs, original_modules, ""),
                             include_async)
    IN  /\ attrs' = st.attrs
        /\ original_modules' = st.orig
        /\ patched' = IF st.exc = "" THEN TRUE ELSE patched
        /\ last_call' = Call("patch_all",
                              ArgText(PatchArgs(include_async, force)),
                              IF st.exc = "" THEN "returned" ELSE "raised",
                              IF st.exc = "" THEN "results" ELSE st.exc)
        /\ pristine' = IF ~patched /\ replaced = {} THEN attrs ELSE pristine
        /\ replaced' = replaced \cup { a \in AttrNames : st.attrs[a] # attrs[a] }

\* What the variables of patch.py and the histories become when
\* patch_all(include_async, force) is called.
DoPatchAll(include_async, force) ==
    IF patched /\ ~force
    THEN /\ last_call' = Call("patch_all", ArgText(PatchArgs(include_async, force)),
                            "no effect", "{}")
         /\ UNCHANGED << attrs, original_modules, patched, pristine, replaced >>
    ELSE LET st == patch_all_body(sys_modules,
                                  PyState(attrs, original_modules, ""),
                                  include_async)
         IN  /\ attrs' = st.attrs
             /\ original_modules' = st.orig
             /\ patched' = IF st.exc = "" THEN TRUE ELSE patched
             /\ last_call' = Call("patch_all",
                                   ArgText(PatchArgs(include_async, force)),
                                   IF st.exc = "" THEN "returned" ELSE "raised",
                                   IF st.exc = "" THEN "results" ELSE st.exc)
             /\ pristine' = IF ~patched /\ replaced = {} THEN attrs ELSE pristine
             /\ replaced' = replaced \cup
                               { a \in AttrNames : st.attrs[a] # attrs[a] }

\* "_patched = False" is missing.
DoUnpatchAll_flagKept ==
    IF ~patched
    THEN /\ last_call' = Call("unpatch_all", "", "no effect", "None")
         /\ UNCHANGED << attrs, original_modules, patched, pristine, replaced >>
    ELSE /\ attrs' = unpatch_all_attrs(sys_modules, attrs, original_modules)
         /\ original_modules' = [ k \in OriginalKeys |-> "unset" ]
         /\ last_call' = Call("unpatch_all", "", "returned", "None")
         /\ replaced' = {}
         /\ UNCHANGED << patched, pristine >>

\* What they become when unpatch_all() is called.
DoUnpatchAll ==
    IF ~patched
    THEN /\ last_call' = Call("unpatch_all", "", "no effect", "None")
         /\ UNCHANGED << attrs, original_modules, patched, pristine, replaced >>
    ELSE /\ attrs' = unpatch_all_attrs(sys_modules, attrs, original_modules)
         /\ original_modules' = [ k \in OriginalKeys |-> "unset" ]
         /\ patched' = FALSE
         /\ last_call' = Call("unpatch_all", "", "returned", "None")
         /\ replaced' = {}
         /\ UNCHANGED pristine


\* ---- the import statement

\* WebSocketRSFinder.find_spec(fullname, ...) returns a replacement spec
\* (TRUE) or None (FALSE); it is asked about modules not in sys.modules
find_spec(fullname, mods) ==
    \/ fullname = "websockets.sync.client"
    \/ fullname = "websocket"
    \/ fullname = "websockets" /\ mods["websockets"] = "none"

\* The finder of the hook is asked before the finder of the installed
\* libraries.
FinderFirst(path) ==
    \E i \in 1..Len(path) :
       /\ path[i] = "WebSocketRSFinder"
       /\ \A j \in 1..(i - 1) : path[j] # "PathFinder"

Parent(name) ==
    CASE name = "websockets.sync" -> "websockets"
      [] name = "websockets.client" -> "websockets"
      [] name = "websockets.sync.client" -> "websockets.sync"
      [] OTHER -> ""

\* The modules "import name" imports, outermost first.
ImportChain(name) ==
    CASE name = "websockets.sync" -> << "websockets", "websockets.sync" >>
      [] name = "websockets.client" -> << "websockets", "websockets.client" >>
      [] name = "websockets.sync.client" ->
            << "websockets", "websockets.sync", "websockets.sync.client" >>
      [] OTHER -> << name >>

\* WebSocketRSLoader.exec_module: the attributes of the replacement module
LoaderAttrs(name, at) ==
    CASE name = "websockets.sync.client" ->
            [ at EXCEPT !["websockets.sync.client.connect"] = "hook",
                        !["websockets.sync.client.WebSocket"] = "hook" ]
      [] name = "websockets" ->
            [ at EXCEPT !["websockets.sync.client.connect"] = "hook",
                        !["websockets.sync.client.WebSocket"] = "hook",
                        !["websockets.connect"] = "absent" ]
      [] OTHER ->
            [ at EXCEPT !["websocket.WebSocket"] = "hook",
                        !["websocket.create_connection"] = "hook",
                        !["websocket.WebSocketApp"] = "hook" ]

\* The attributes of a module of the installed library; lib_ws says whether
\* websockets.sync.client has an attribute WebSocket.
LibraryAttrs(name, at, lib_ws) ==
    CASE name = "websockets" -> [ at EXCEPT !["websockets.connect"] = "library" ]
      [] name = "websockets.sync" -> at
      [] name = "websockets.sync.client" ->
            [ at EXCEPT !["websockets.sync.client.connect"] = "library",
                        !["websockets.sync.client.WebSocket"] = lib_ws ]
      [] name = "websockets.client" ->
            [ at EXCEPT !["websockets.client.connect"] = "library" ]
      [] OTHER ->
            [ at EXCEPT !["websocket.WebSocketApp"] = "library",
                        !["websocket.WebSocket"] = "library",
                        !["websocket.create_connection"] = "library" ]

ImportState(m, a, e) == [ mods |-> m, attrs |-> a, exc |-> e ]

\* importlib: one module of the chain. A module in sys.modules is not
\* loaded again; a parent without __path__ (the loader's replacement of
\* websockets) is not a package; the first finder of sys.meta_path that
\* returns a spec decides what is loaded.
import_one(im, name, path, lib_ws) ==
    IF im.exc # "" \/ im.mods[name] # "none" THEN im
    ELSE IF Parent(name) # "" /\ im.mods[Parent(name)] = "hook"
    THEN ImportState(im.mods, im.attrs, "ModuleNotFoundError")
    ELSE IF FinderFirst(path) /\ find_spec(name, im.mods)
    THEN ImportState([ im.mods EXCEPT ![name] = "hook" ],
                     LoaderAttrs(name, im.attrs), "")
    ELSE ImportState([ im.mods EXCEPT ![name] = "library" ],
                     LibraryAttrs(name, im.attrs, lib_ws), "")

RECURSIVE import_chain(_, _, _, _)
import_chain(im, names, path, lib_ws) ==
    IF names = << >> THEN im
    ELSE import_chain(import_one(im, Head(names), path, lib_ws), Tail(names),
                      path, lib_ws)

\* "import name" executed by the program
Import(name) ==
    /\ with_stack = << >>
    /\ sys_modules[name] = "none"
    /\ \E lib_ws \in { "absent", "library" } :
          LET im == import_chain(ImportState(sys_modules, attrs, ""),
                                 ImportChain(name), meta_path, lib_ws)
          IN  /\ sys_modules' = im.mods
              /\ attrs' = im.attrs
              /\ last_call' = Call("import", name,
                                    IF im.exc = "" THEN "returned" ELSE "raised",
                                    im.exc)
    /\ UNCHANGED << original_modules, patched, meta_path, hook_enabled,
                    contexts, with_stack, pristine, replaced >>
    /\ UNCHANGED << batchVars, statVars, compareVars >>
    /\ RunFrame
    /\ UNCHANGED appVars

\* ---- the calls of patch.py

\* patch_all(include_async, force) called by the program
PatchAll(include_async, force) ==
    /\ with_stack = << >>
    /\ DoPatchAll(include_async, force)
    /\ UNCHANGED << sys_modules, meta_path, hook_enabled, contexts, with_stack >>
    /\ UNCHANGED << batchVars, statVars, compareVars >>
    /\ RunFrame
    /\ UNCHANGED appVars

\* unpatch_all() called by the program
UnpatchAll ==
    /\ with_stack = << >>
    /\ DoUnpatchAll
    /\ UNCHANGED << sys_modules, meta_path, hook_enabled, contexts, with_stack >>
    /\ UNCHANGED << batchVars, statVars, compareVars >>
    /\ RunFrame
    /\ UNCHANGED appVars

\* patch_context(include_async): __init__ reads _patched
NewPatchContext(c, include_async) ==
    /\ ~contexts[c].made
    /\ contexts' = [ contexts EXCEPT ![c] = [ made |-> TRUE,
                                               include_async |-> include_async,
                                               was_patched |-> patched ] ]
    /\ last_call' = Call("patch_context",
                          IF include_async THEN "include_async=True" ELSE "",
                          "returned", "object")
    /\ UNCHANGED << sys_modules, attrs, original_modules, patched, meta_path,
                    hook_enabled, with_stack, pristine, replaced >>
    /\ UNCHANGED << batchVars, statVars, compareVars >>
    /\ RunFrame
    /\ UNCHANGED appVars

\* A with-block that has been entered: its context and, as history, the
\* flag and the attributes before it was entered.
Block(c) == [ ctx |-> c, patched |-> patched, attrs |-> attrs ]

\* "with c:": patch_context.__enter__; the block is entered unless
\* patch_all raises
EnterContext(c) ==
    /\ contexts[c].made
    /\ Len(with_stack) < MaxDepth
    /\ IF contexts[c].was_patched
       THEN /\ last_call' = Call("__enter__", "", "returned", "self")
            /\ UNCHANGED << attrs, original_modules, patched, pristine, replaced >>
       ELSE DoPatchAll(contexts[c].include_async, FALSE)
    /\ with_stack' = IF last_call'.how = "raised" THEN with_stack
                     ELSE Append(with_stack, Block(c))
    /\ UNCHANGED << sys_modules, meta_path, hook_enabled, contexts >>
    /\ UNCHANGED << batchVars, statVars, compareVars >>
    /\ RunFrame
    /\ UNCHANGED appVars

\* The innermost with-block is left: patch_context.__exit__
ExitContext ==
    /\ with_stack # << >>
    /\ IF contexts[with_stack[Len(with_stack)].ctx].was_patched
       THEN /\ last_call' = Call("__exit__", "", "returned", "False")
            /\ UNCHANGED << attrs, original_modules, patched, pristine, replaced >>
       ELSE DoUnpatchAll
    /\ with_stack' = SubSeq(with_stack, 1, Len(with_stack) - 1)
    /\ UNCHANGED << sys_modules, meta_path, hook_enabled, contexts >>
    /\ UNCHANGED << batchVars, statVars, compareVars >>
    /\ RunFrame
    /\ UNCHANGED appVars

InitPatch ==
    /\ NoRun
    /\ BatchIdle
    /\ StatIdle
    /\ CompareIdle
    /\ PatchIdle
    /\ AppIdle

NextPatch ==
    \/ \E name \in ModuleNames : Import(name)
    \/ \E include_async \in BOOLEAN, force \in BOOLEAN : PatchAll(include_async, force)
    \/ UnpatchAll

SpecPatch == InitPatch /\ [][NextPatch]_vars

\* The program with its with-blocks: the libraries are imported before the
\* first patch and the first patch_context, and the body of a with-block
\* consists of further with-blocks.
ImportAtStart(name) ==
    /\ ~patched /\ replaced = {}
    /\ \A c \in 1..MaxContexts : ~contexts[c].made
    /\ Import(name)

NextContext ==
    \/ \E name \in ModuleNames : ImportAtStart(name)
    \/ \E include_async \in BOOLEAN, force \in BOOLEAN : PatchAll(include_async, force)
    \/ UnpatchAll
    \/ \E c \in 1..MaxContexts, include_async \in BOOLEAN :
          NewPatchContext(c, include_async)
    \/ \E c \in 1..MaxContexts : EnterContext(c)
    \/ ExitContext

SpecContext == InitPatch /\ [][NextContext]_vars

\* is_patched()
is_patched == patched


-----------------------------------------------------------------------------
(* Claims about patch_all, unpatch_all and is_patched *)

\* The step is a call of patch_all / unpatch_all that ran to its end.
PatchTookEffect == last_call'.name = "patch_all" /\ last_call'.how = "returned"

UnpatchTookEffect == last_call'.name = "unpatch_all" /\ last_call'.how = "returned"

\* C25: is_patched() is False initially, True after a patch_all() that took
\* effect and False after an unpatch_all() that took effect, and no other
\* step changes it: it is True exactly when the most recent call that took
\* effect was a patch_all.
C25_IsPatched ==
    /\ [] ( last_call = NoCall => ~is_patched )
    /\ [][ /\ PatchTookEffect => is_patched'
           /\ UnpatchTookEffect => ~is_patched'
           /\ ( ~PatchTookEffect /\ ~UnpatchTookEffect )
                => is_patched' = is_patched ]_vars

\* patch_all() and then unpatch_all() with websockets.sync.client imported.
C25_Witness ==
    /\ sys_modules["websockets.sync.client"] = "library"
    /\ last_call = Call("unpatch_all", "", "returned", "None")
    /\ ~is_patched
    /\ attrs["websockets.sync.client.connect"] = "library"

\* C26: after any sequence of patch_all calls followed by unpatch_all, every
\* attribute that patching replaced has the value it had before the first
\* patch_all.
C26_Restored ==
    [][ UnpatchTookEffect
          => \A a \in replaced : attrs'[a] = pristine[a] ]_vars

\* C27: a redundant call changes nothing: patch_all() without force while
\* patched returns {} and unpatch_all() while not patched returns, and the
\* flag, the saved originals and every attribute stay as they were.
C27_RedundantCall ==
    [][ ( \/ /\ patched /\ last_call'.name = "patch_all"
             /\ last_call'.arg \in { "", "include_async=True" }
          \/ ~patched /\ last_call'.name = "unpatch_all" )
        => /\ last_call'.how = "no effect"
           /\ last_call'.name = "patch_all" => last_call'.value = "{}"
           /\ UNCHANGED << patched, original_modules, attrs, sys_modules >> ]_vars

\* A second patch_all() has returned {} with the patches of the first in
\* place.
C27_Witness ==
    /\ last_call = Call("patch_all", "", "no effect", "{}")
    /\ patched
    /\ attrs["websocket.WebSocket"] = "patch"
    /\ original_modules["websocket.WebSocket"] = "library"

-----------------------------------------------------------------------------
(* Claims about patch_context *)

\* The step leaves the innermost with-block.
LeavesBlock ==
    /\ with_stack # << >>
    /\ with_stack' = SubSeq(with_stack, 1, Len(with_stack) - 1)

\* The flag and the attributes immediately before the innermost with-block
\* was entered.
BeforeBlock == with_stack[Len(with_stack)]

\* C28: inside a with-block of patch_context is_patched() is True, and
\* leaving the block puts the patched flag and every attribute back to what
\* they were immediately before the block was entered, whether or not
\* patching was active then and however the blocks are nested.
C28_Temporary ==
    /\ [] ( with_stack # << >> => is_patched )
    /\ [][ LeavesBlock
             => /\ is_patched' = BeforeBlock.patched
                /\ attrs' = BeforeBlock.attrs ]_vars

\* The flag alone: what C28 says of is_patched(), the attributes left out.
C28_FlagOnly ==
    /\ [] ( with_stack # << >> => is_patched )
    /\ [][ LeavesBlock => is_patched' = BeforeBlock.patched ]_vars

-----------------------------------------------------------------------------
(* The import hook of auto_patch.py *)

\* list.remove(x): the first occurrence of x is removed
ListRemove(path, x) ==
    LET i == CHOOSE k \in 1..Len(path) :
                 path[k] = x /\ \A j \in 1..(k - 1) : path[j] # x
    IN  SubSeq(path, 1, i - 1) \o SubSeq(path, i + 1, Len(path))

\* enable without the test of self.enabled: the finder is inserted again.
HookEnable_again ==
    /\ meta_path' = << "WebSocketRSFinder" >> \o meta_path
    /\ hook_enabled' = TRUE

\* WebSocketRSImportHook.enable
HookEnable ==
    IF ~hook_enabled
    THEN /\ meta_path' = << "WebSocketRSFinder" >> \o meta_path
         /\ hook_enabled' = TRUE
    ELSE UNCHANGED << meta_path, hook_enabled >>

\* WebSocketRSImportHook.disable: ValueError of list.remove is swallowed and
\* leaves the flag set
HookDisable ==
    IF hook_enabled /\ \E i \in 1..Len(meta_path) : meta_path[i] = "WebSocketRSFinder"
    THEN /\ meta_path' = ListRemove(meta_path, "WebSocketRSFinder")
         /\ hook_enabled' = FALSE
    ELSE UNCHANGED << meta_path, hook_enabled >>

\* enable_auto_patch()
EnableAutoPatch ==
    /\ HookEnable
    /\ last_call' = Call("enable_auto_patch", "",
                          IF hook_enabled THEN "no effect" ELSE "returned", "None")
    /\ UNCHANGED << sys_modules, attrs, original_modules, patched, contexts,
                    with_stack, pristine, replaced >>
    /\ UNCHANGED << batchVars, statVars, compareVars >>
    /\ RunFrame
    /\ UNCHANGED appVars

\* disable_auto_patch()
DisableAutoPatch ==
    /\ HookDisable
    /\ last_call' = Call("disable_auto_patch", "",
                          IF hook_enabled THEN "returned" ELSE "no effect", "None")
    /\ UNCHANGED << sys_modules, attrs, original_modules, patched, contexts,
                    with_stack, pristine, replaced >>
    /\ UNCHANGED << batchVars, statVars, compareVars >>
    /\ RunFrame
    /\ UNCHANGED appVars

\* is_auto_patch_enabled()
is_auto_patch_enabled == hook_enabled

NextHook ==
    \/ \E name \in ModuleNames : Import(name)
    \/ EnableAutoPatch
    \/ DisableAutoPatch

SpecHook == InitPatch /\ [][NextHook]_vars

-----------------------------------------------------------------------------
(* Claims about the import hook *)

\* The names the finder is meant to intercept.
Intercepted == { "websockets.sync.client", "websocket", "websockets" }

\* The step is a fresh "import name".
FreshImport(name) ==
    /\ sys_modules[name] = "none"
    /\ last_call'.name = "import"
    /\ last_call'.arg = name

\* C29: while auto-patch is enabled a fresh import of websockets.sync.client,
\* of websocket or of a not-yet-imported websockets yields the replacement
\* module (spec origin 'websocket-rs-replacement'); while it is disabled no
\* import yields a replacement module.
C29_Intercepted ==
    [][ /\ \A name \in Intercepted :
             ( is_auto_patch_enabled /\ FreshImport(name) )
                => /\ last_call'.how = "returned"
                   /\ sys_modules'[name] = "hook"
        /\ \A name \in ModuleNames :
             ( ~is_auto_patch_enabled /\ FreshImport(name) )
                => \A m \in ModuleNames :
                      sys_modules'[m] = "hook" => sys_modules[m] = "hook" ]_vars

\* What holds of the hook: websocket and a not-yet-imported websockets are
\* replaced, and websockets.sync.client is replaced when the library's
\* websockets.sync is imported already.
C29_InterceptedInPackage ==
    [][ /\ \A name \in { "websocket", "websockets" } :
             ( is_auto_patch_enabled /\ FreshImport(name) )
                => /\ last_call'.how = "returned"
                   /\ sys_modules'[name] = "hook"
        /\ ( /\ is_auto_patch_enabled
             /\ FreshImport("websockets.sync.client")
             /\ sys_modules["websockets.sync"] = "library" )
                => /\ last_call'.how = "returned"
                   /\ sys_modules'["websockets.sync.client"] = "hook"
        /\ \A name \in ModuleNames :
             ( ~is_auto_patch_enabled /\ FreshImport(name) )
                => \A m \in ModuleNames :
                      sys_modules'[m] = "hook" => sys_modules[m] = "hook" ]_vars

-----------------------------------------------------------------------------
(* enable_monkeypatch and disable_monkeypatch of websocket_rs/__init__.py *)

Methods == { "auto", "patch", "both" }

MethodText(method, include_async) ==
    IF include_async THEN method \o ", include_async=True" ELSE method

\* enable_monkeypatch(method, include_async): enable_auto_patch() for 'auto'
\* and 'both', then patch_all(include_async=include_async) for 'patch' and
\* 'both'; last_call is the last call it made
enable_monkeypatch(method, include_async) ==
    /\ IF method \in { "auto", "both" } THEN HookEnable
       ELSE UNCHANGED << meta_path, hook_enabled >>
    /\ IF method \in { "patch", "both" } THEN DoPatchAll(include_async, FALSE)
       ELSE /\ last_call' = Call("enable_auto_patch",
                                 MethodText(method, include_async),
                                 IF hook_enabled THEN "no effect" ELSE "returned",
                                 "None")
            /\ UNCHANGED << attrs, original_modules, patched, pristine, replaced >>

\* patch.unpatch_all() is not called.
disable_monkeypatch_hookOnly ==
    /\ HookDisable
    /\ last_call' = Call("disable_auto_patch", "",
                          IF hook_enabled THEN "returned" ELSE "no effect", "None")
    /\ UNCHANGED << attrs, original_modules, patched, pristine, replaced >>

\* disable_monkeypatch(): disable_auto_patch(), then unpatch_all() if
\* is_patched()
disable_monkeypatch ==
    /\ HookDisable
    /\ IF is_patched THEN DoUnpatchAll
       ELSE /\ last_call' = Call("disable_auto_patch", "",
                                 IF hook_enabled THEN "returned" ELSE "no effect",
                                 "None")
            /\ UNCHANGED << attrs, original_modules, patched, pristine, replaced >>

EnableMonkeypatch(method, include_async) ==
    /\ enable_monkeypatch(method, include_async)
    /\ UNCHANGED << sys_modules, contexts, with_stack >>
    /\ UNCHANGED << batchVars, statVars, compareVars >>
    /\ RunFrame
    /\ UNCHANGED appVars

DisableMonkeypatch ==
    /\ disable_monkeypatch
    /\ UNCHANGED << sys_modules, contexts, with_stack >>
    /\ UNCHANGED << batchVars, statVars, compareVars >>
    /\ RunFrame
    /\ UNCHANGED appVars

NextMonkey ==
    \/ \E name \in ModuleNames : Import(name)
    \/ \E method \in Methods, include_async \in BOOLEAN :
          EnableMonkeypatch(method, include_async)
    \/ DisableMonkeypatch

SpecMonkey == InitPatch /\ [][NextMonkey]_vars

-----------------------------------------------------------------------------
(* Claims about enable_monkeypatch and disable_monkeypatch *)

\* C30: disable_monkeypatch() undoes enable_monkeypatch for every method:
\* after it, whatever enable_monkeypatch calls and imports came before,
\* is_patched() is False and is_auto_patch_enabled() is False.
C30_Disabled ==
    [][ DisableMonkeypatch
          => /\ ~is_patched'
             /\ ~is_auto_patch_enabled' ]_vars

\* disable_monkeypatch() has removed the hook and, through unpatch_all, the
\* patches: a module loaded by the hook is left in sys.modules, the
\* attribute patch_all replaced is the library's again.
C30_Witness ==
    /\ last_call = Call("unpatch_all", "", "returned", "None")
    /\ ~is_patched
    /\ ~is_auto_patch_enabled
    /\ meta_path = << "PathFinder" >>
    /\ sys_modules["websocket"] = "hook"
    /\ sys_modules["websockets.client"] = "library"
    /\ attrs["websockets.connect"] = "library"
    /\ "websockets.connect" \in DOMAIN attrs

-----------------------------------------------------------------------------
(* Claims about what the Pipelined driver waits for and records *)

\* C31: the Pipelined control loop never blocks for a response with nothing
\* outstanding: whenever it is at "await ws.recv()" of the timed loop,
\* sent_count - recv_count >= 1 (N >= 1, max_in_flight >= 1).
C31_NeverWaitsIdle ==
    ( num_messages >= 1 /\ max_in_flight >= 1 /\ Awaiting ) => InFlight >= 1

\* The driver waits with the window not full: every message is sent and one
\* response of a window of two is still to come.
C31_Witness ==
    /\ Awaiting
    /\ sent_count = num_messages
    /\ InFlight = 1
    /\ max_in_flight = 2
    /\ recv_count >= 1

\* The errors the codec and the driver raise on purpose (ValueError).
ProtocolErrors ==
    { "MalformedFrame", "IdentifierMismatch", "LengthMismatch",
      "PayloadLengthMismatch", "DuplicateIdentifier", "IdentifierOutOfRange",
      "MessageLoss" }

\* The response taken in this step carries an id of the valid range that has
\* not been dispatched yet.
NotYetSent ==
    /\ TimedReceive
    /\ outcome'.ok
    /\ outcome'.msg_id >= sent_count
    /\ outcome'.msg_id < num_messages

\* C32: every id with a latency record has been dispatched and lies in
\* [0, N); a response with an id in [sent_count, N) ends the run with a
\* protocol error and the id is added neither to received_ids nor to a
\* latency map.
C32_OnlyDispatched ==
    /\ [] ( \A id \in DOMAIN send_lats \cup DOMAIN recv_lats \cup DOMAIN rtt_lats :
               id \in DOMAIN client_send_times /\ id \in 0..(num_messages - 1) )
    /\ [][ NotYetSent
             => /\ pc' = "failed"
                /\ error' \in ProtocolErrors
                /\ received_ids' = received_ids
                /\ UNCHANGED Latencies ]_vars

\* What holds of such a response: the run ends and no latency is recorded.
C32_NoLatencyRecorded ==
    /\ [] ( \A id \in DOMAIN send_lats \cup DOMAIN recv_lats \cup DOMAIN rtt_lats :
               id \in DOMAIN client_send_times /\ id \in 0..(num_messages - 1) )
    /\ [][ NotYetSent => ( pc' = "failed" /\ UNCHANGED Latencies ) ]_vars

-----------------------------------------------------------------------------
(* Claims about the end of the timed loop *)

\* The run is one of benchmark_picows.
IsPicows == transport # "none"

\* The timed loop has run to its end: the condition of the while of the
\* Pipelined driver is false, the for of the Request-Response driver is
\* exhausted, both fors of benchmark_picows are exhausted.
LoopExhausted ==
    /\ pc = "loop"
    /\ IF IsPicows
       THEN msg_id >= num_messages /\ recv_count >= num_messages
       ELSE msg_id >= num_messages \/ recv_count >= num_messages

\* The timed loop was left normally, now or earlier in the run.
LoopExitedNormally ==
    \/ LoopExhausted
    \/ pc = "returned"
    \/ error \in { "MessageLoss", "StatisticsError" }

\* C33: whenever the timed loop of a driver is left normally, received_ids
\* has exactly N elements and the keys of send_lats, recv_lats and rtt_lats
\* are the elements of received_ids; the message-loss test after the loop
\* never fires.
C33_LoopExitComplete ==
    /\ LoopExitedNormally
          => /\ Cardinality(received_ids) = num_messages
             /\ DOMAIN send_lats = received_ids
             /\ DOMAIN recv_lats = received_ids
             /\ DOMAIN rtt_lats = received_ids
    /\ error # "MessageLoss"

\* The for loop of the Request-Response driver is exhausted after N
\* accepted responses, the transport having delivered one response twice.
C33_Witness ==
    /\ LoopExhausted
    /\ msg_id = num_messages
    /\ num_messages = MaxN
    /\ received_ids = 0..(MaxN - 1)
    /\ pc = "loop"
    /\ faulted

-----------------------------------------------------------------------------
(* Claims about the order of sending and receiving in benchmark_picows *)

\* The timed messages dispatched and not yet answered to the driver.
Unanswered == Len(sent_log) - recv_count

\* C34: benchmark_picows dispatches all N timed messages before it consumes
\* a timed response: no response is consumed with a message still to send,
\* and when the sending loop is done N requests are outstanding, whatever
\* max_in_flight is.
C34_AllSentFirst ==
    /\ recv_count >= 1 => Len(sent_log) = num_messages
    /\ ( pc = "loop" /\ msg_id >= num_messages /\ recv_count = 0 )
          => Unanswered = num_messages

\* All N >= 2 messages are out with a response ready on the queue and none
\* consumed.
C34_Witness ==
    /\ pc = "loop"
    /\ num_messages = MaxN
    /\ Unanswered = num_messages
    /\ Unanswered >= 2
    /\ recv_count = 0
    /\ response_queue # << >>

-----------------------------------------------------------------------------
(* benchmark_picows_request_response: send one message, take one item from  *)
(* response_queue, send the next                                             *)

\* message = struct.pack("=I", msg_id) + base_message;
\* ws_transport.send(WSMsgType.BINARY, message)
PicowsRRSend ==
    /\ pc = "loop"
    /\ msg_id < num_messages
    /\ \E d \in 0..1 :
          /\ t_send' = Now(d)
          /\ clock' = Now(d)
    /\ c2s' = Append(c2s, Pack32(msg_id) \o base_message)
    /\ sent_log' = Append(sent_log, msg_id)
    /\ pc' = "recv"
    /\ UNCHANGED << num_messages, message_size, max_in_flight, warmup_id,
                    sent_count, recv_count, msg_id, client_send_times,
                    send_lats, recv_lats, rtt_lats, received_ids, error, result >>
    /\ UNCHANGED picowsVars
    /\ UNCHANGED << s2c, faulted, lost >>
    /\ UNCHANGED << response, outcome, row >>
    /\ UNCHANGED argVars
    /\ UNCHANGED extraVars
    /\ UNCHANGED built
    /\ UNCHANGED serverVars

\* t_recv, response = await response_queue.get() and the rest of the loop
\* body; an exception leaves through the finally
PicowsRRGet ==
    /\ pc = "recv"
    /\ response_queue # << >>
    /\ LET t_recv == Head(response_queue)[1]
           data == Head(response_queue)[2]
           p == parse_and_verify_response(Bytes(data), Len(base_message),
                                          ExpectedId, TRUE)
           a == SeqAccept(p, t_recv)
       IN  /\ response' = Bytes(data)
           /\ outcome' = p
           /\ error' = a.error
           /\ received_ids' = a.received_ids
           /\ send_lats' = a.send_lats
           /\ recv_lats' = a.recv_lats
           /\ rtt_lats' = a.rtt_lats
           /\ pc' = IF a.error = "" THEN "loop" ELSE "failed"
           /\ msg_id' = IF a.error = "" THEN msg_id + 1 ELSE msg_id
           /\ transport' = IF a.error = "" THEN transport ELSE AfterExit("failed")
    /\ response_queue' = Tail(response_queue)
    /\ UNCHANGED << num_messages, message_size, max_in_flight, warmup_id,
                    sent_count, recv_count, t_send, client_send_times, result,
                    sent_log >>
    /\ UNCHANGED put_tasks
    /\ UNCHANGED netVars
    /\ UNCHANGED row
    /\ UNCHANGED argVars
    /\ UNCHANGED extraVars
    /\ UNCHANGED built
    /\ UNCHANGED serverVars

\* the for loop is exhausted: finally, the completeness test, the return value
PicowsRRFinish ==
    /\ pc = "loop"
    /\ msg_id >= num_messages
    /\ LET c == Completed("picows (RR)") IN
          /\ error' = c.error
          /\ result' = c.result
          /\ pc' = IF c.error = "" THEN "returned" ELSE "failed"
          /\ transport' = AfterExit(IF c.error = "" THEN "returned" ELSE "failed")
    /\ UNCHANGED << num_messages, message_size, max_in_flight, warmup_id,
                    sent_count, recv_count, msg_id, t_send, client_send_times,
                    send_lats, recv_lats, rtt_lats, received_ids, sent_log >>
    /\ UNCHANGED << put_tasks, response_queue >>
    /\ UNCHANGED netVars
    /\ UNCHANGED << response, outcome, row >>
    /\ UNCHANGED argVars
    /\ UNCHANGED extraVars
    /\ UNCHANGED built
    /\ UNCHANGED serverVars

NextPicowsRR ==
    \/ WarmupSend
    \/ PicowsWarmupGet
    \/ PicowsRRSend
    \/ PicowsRRGet
    \/ PicowsRRFinish
    \/ OnWsFrame
    \/ RunPutTask
    \/ ServerEcho
    \/ Redeliver
    \/ Lose
    \/ Corrupt
    \/ Truncate

SpecPicowsRR == InitPicows /\ [][NextPicowsRR]_vars

-----------------------------------------------------------------------------
(* Claims about the response queue of the picows drivers *)

\* The frames that have arrived and are not dequeued yet, oldest first: the
\* items on response_queue, then those of the put-tasks still to run.
Pending == response_queue \o put_tasks

-----------------------------------------------------------------------------
(* The Pipelined driver with a window of one message and the                 *)
(* Request-Response driver, each against the in-order echo server over a     *)
(* connection that delivers every response once and in order                 *)

WebsocketsDrivers ==
    { "benchmark_websockets_async", "benchmark_websockets_request_response" }

\* One of the two drivers is called with num_messages = N; max_in_flight of
\* the Pipelined driver is 1.
InitEither ==
    /\ driver \in WebsocketsDrivers
    /\ pc = "warmup_send"
    /\ num_messages \in 0..MaxN
    /\ message_size \in MessageSizes
    /\ max_in_flight = 1
    /\ warmup_id = 0 /\ sent_count = 0 /\ recv_count = 0 /\ msg_id = 0 /\ t_send = 0
    /\ client_send_times = EmptyMap /\ send_lats = EmptyMap
    /\ recv_lats = EmptyMap /\ rtt_lats = EmptyMap
    /\ received_ids = {} /\ error = "" /\ result = NoResult /\ sent_log = << >>
    /\ response = Bytes(<< >>) /\ outcome = NotCalled
    /\ c2s = << >> /\ s2c = << >> /\ clock = 0
    /\ faulted = FALSE /\ lost = None
    /\ expected_payload_len = 0 /\ expected_msg_id = None /\ verify_content = TRUE
    /\ built = NoFrame /\ row = NoRow
    /\ ServerIdle
    /\ PicowsIdle
    /\ batch_size = 1 /\ num_batches = 0 /\ batch_index = 0
    /\ start = 0 /\ batch_start = 0 /\ send_start = 0 /\ latencies = << >>
    /\ dispatched = 0 /\ bursts = 0
    /\ StatIdle
    /\ CompareIdle
    /\ PatchIdle
    /\ AppIdle

\* The steps of benchmark_websockets_async
AsyncDriverStep ==
    /\ driver = "benchmark_websockets_async"
    /\ \/ TopUpSend
       \/ PipelinedRecv
       \/ PipelinedFinish

\* The steps of benchmark_websockets_request_response
RequestResponseDriverStep ==
    /\ driver = "benchmark_websockets_request_response"
    /\ \/ SeqSend
       \/ SeqRecv
       \/ SeqFinish

NextEither ==
    \/ WarmupSend
    \/ WarmupRecv
    \/ AsyncDriverStep
    \/ RequestResponseDriverStep
    \/ ServerEcho

SpecEither == InitEither /\ [][NextEither]_vars

-----------------------------------------------------------------------------
(* Claims about the two drivers compared *)

\* A send event: the message with the next id is dispatched, every earlier
\* message being answered.
SendEvent ==
    /\ Len(sent_log) = Cardinality(received_ids)
    /\ sent_log' = Append(sent_log, Len(sent_log))
    /\ c2s' = Append(c2s, Pack32(Len(sent_log)) \o base_message)
    /\ UNCHANGED << received_ids, send_lats, recv_lats, rtt_lats >>

\* A receive event: the response to the message sent last is accepted.
ReceiveEvent ==
    /\ Len(sent_log) = Cardinality(received_ids) + 1
    /\ received_ids' = received_ids \cup { Len(sent_log) - 1 }
    /\ DOMAIN rtt_lats' = received_ids'
    /\ outcome'.ok /\ outcome'.msg_id = Len(sent_log) - 1
    /\ UNCHANGED sent_log

\* Neither a send nor a receive of the timed loop.
NoEvent == UNCHANGED << sent_log, received_ids, DOMAIN rtt_lats >>

\* C36: over an ordered connection to the in-order echo server, the
\* Pipelined driver with max_in_flight = 1 and the Request-Response driver
\* produce the same events for the same N: whichever of the two runs, the
\* events are send 0, receive 0, send 1, receive 1, ..., each determined by
\* the events before it, the ids are accepted in the order 0, 1, ..., and a
\* run that returns has made all 2N events.
C36_SameEvents ==
    /\ [][ SendEvent \/ ReceiveEvent \/ NoEvent ]_vars
    /\ [] ( /\ sent_log = [ i \in 1..Len(sent_log) |-> i - 1 ]
            /\ received_ids = 0..(Cardinality(received_ids) - 1)
            /\ error = "" \/ num_messages = 0 )
    /\ [] ( pc = "returned"
              => /\ Len(sent_log) = num_messages
                 /\ received_ids = 0..(num_messages - 1) )

\* The Pipelined driver has sent message 1 after accepting response 0.
C36_Witness ==
    /\ driver = "benchmark_websockets_async"
    /\ sent_log = << 0, 1 >>
    /\ received_ids = { 0 }
    /\ Awaiting
    /\ num_messages = MaxN

\* The Request-Response driver at the same point of the same run.
C36_WitnessRequestResponse ==
    /\ driver = "benchmark_websockets_request_response"
    /\ sent_log = << 0, 1 >>
    /\ received_ids = { 0 }
    /\ pc = "recv"
    /\ num_messages = MaxN

-----------------------------------------------------------------------------
(* WebSocketApp.run_forever of the replacement classes (patch.py,            *)
(* auto_patch.py). The calls into the connection object and into the         *)
(* callbacks of the user return or raise as they please; the position of     *)
(* run_forever is app.pc, the exception in flight is named in app.exc by     *)
(* the call that raised it.                                                  *)

MaxRecv == 2

Event(call, arg, out) == [ call |-> call, arg |-> arg, out |-> out ]

Outcomes == { "returned", "raised" }

\* The positions of events where name was called.
Calls(name) == { i \in 1..Len(events) : events[i].call = name }

\* WebSocketApp(url, on_message, on_error, on_close, on_open): each callback
\* given or None; run_forever is about to be called
InitApp ==
    /\ NoRun
    /\ BatchIdle
    /\ StatIdle
    /\ CompareIdle
    /\ PatchIdle
    /\ events = << >>
    /\ app \in [ pc : { "construct" }, ws : { "None" }, on_open : BOOLEAN,
                 on_message : BOOLEAN, on_error : BOOLEAN, on_close : BOOLEAN,
                 exc : { "" } ]

\* What a step of run_forever leaves alone.
AppFrame ==
    /\ UNCHANGED << batchVars, statVars, compareVars, patchVars >>
    /\ RunFrame

\* The call of name at position "at": it returns and run_forever goes on at
\* "next", or it raises and run_forever goes on at "onRaise".
CallAt(at, name, arg, next, onRaise) ==
    /\ app.pc = at
    /\ \E out \in Outcomes :
          /\ events' = Append(events, Event(name, arg, out))
          /\ app' = IF out = "returned"
                    THEN [ app EXCEPT !.pc = next, !.exc = "" ]
                    ELSE [ app EXCEPT !.pc = onRaise, !.exc = name ]
    /\ AppFrame

\* A callback that is None is not called.
SkipAt(at, next) ==
    /\ app.pc = at
    /\ app' = [ app EXCEPT !.pc = next, !.exc = "" ]
    /\ UNCHANGED events
    /\ AppFrame

\* except Exception of the whole body, entered without the finally clause.
AfterHandler_noFinally == "done"

\* where run_forever goes when the handler "except Exception" of the whole
\* body is done: to the finally clause
AfterHandler == "finally"

\* The receive loop goes on after an error.
AfterLoopError_continue == "while"

\* "break" in the handler of the receive loop: to "if self.on_close"
AfterLoopError == "on_close"

\* self.ws = RustWebSocket(self.url)
AppConstruct ==
    /\ app.pc = "construct"
    /\ \E out \in Outcomes :
          /\ events' = Append(events, Event("WebSocket", "", out))
          /\ app' = IF out = "returned"
                    THEN [ app EXCEPT !.pc = "connect", !.ws = "object" ]
                    ELSE [ app EXCEPT !.pc = "except", !.exc = "WebSocket" ]
    /\ AppFrame

\* self.ws.connect()
AppConnect == CallAt("connect", "connect", "", "on_open", "except")

\* if self.on_open: self.on_open(self)
AppOnOpen ==
    IF app.on_open THEN CallAt("on_open", "on_open", "", "while", "except")
    ELSE SkipAt("on_open", "while")

\* while self.ws.is_connected:
AppWhile ==
    /\ app.pc = "while"
    /\ \E is_connected \in BOOLEAN :
          /\ is_connected => Cardinality(Calls("recv")) < MaxRecv
          /\ app' = [ app EXCEPT !.pc = IF is_connected THEN "recv" ELSE "on_close" ]
    /\ UNCHANGED events
    /\ AppFrame

\* message = self.ws.recv(); "if message and self.on_message" chooses what
\* comes next
AppRecv ==
    /\ app.pc = "recv"
    /\ \E out \in { "message", "empty", "raised" } :
          /\ events' = Append(events, Event("recv", "", out))
          /\ app' = IF out = "raised"
                    THEN [ app EXCEPT !.pc = "loop_except", !.exc = "recv" ]
                    ELSE IF out = "message" /\ app.on_message
                    THEN [ app EXCEPT !.pc = "on_message" ]
                    ELSE [ app EXCEPT !.pc = "while" ]
    /\ AppFrame

\* self.on_message(self, message)
AppOnMessage == CallAt("on_message", "on_message", "", "while", "loop_except")

\* except Exception as e (of the loop body): if self.on_error:
\* self.on_error(self, e); break
AppLoopExcept ==
    IF app.on_error
    THEN CallAt("loop_except", "on_error", app.exc, AfterLoopError, "except")
    ELSE SkipAt("loop_except", AfterLoopError)

\* if self.on_close: self.on_close(self)
AppOnClose ==
    IF app.on_close THEN CallAt("on_close", "on_close", "", "finally", "except")
    ELSE SkipAt("on_close", "finally")

\* except Exception as e (of the whole body): if self.on_error:
\* self.on_error(self, e); an exception of on_error leaves run_forever
\* through the finally clause
AppExcept ==
    IF app.on_error
    THEN CallAt("except", "on_error", app.exc, AfterHandler, AfterHandler)
    ELSE SkipAt("except", AfterHandler)

\* finally: if self.ws: self.ws.close(); then run_forever returns or the
\* exception in flight leaves it
AppFinally ==
    /\ app.pc = "finally"
    /\ IF app.ws = "None"
       THEN /\ app' = [ app EXCEPT !.pc = "done" ]
            /\ UNCHANGED events
       ELSE \E out \in Outcomes :
               /\ events' = Append(events, Event("close", "", out))
               /\ app' = [ app EXCEPT !.pc = "done",
                                      !.exc = IF out = "raised" THEN "close"
                                              ELSE app.exc ]
    /\ AppFrame

NextApp ==
    \/ AppConstruct
    \/ AppConnect
    \/ AppOnOpen
    \/ AppWhile
    \/ AppRecv
    \/ AppOnMessage
    \/ AppLoopExcept
    \/ AppOnClose
    \/ AppExcept
    \/ AppFinally

SpecApp == InitApp /\ [][NextApp]_vars


-----------------------------------------------------------------------------
(* Claims about the order of the callbacks in WebSocketApp.run_forever       *)

\* connect has returned.
ConnectedAt == { i \in Calls("connect") : events[i].out = "returned" }

\* run_forever is past the call of on_open.
PastOnOpen == app.pc \notin { "construct", "connect", "on_open" }

\* C37: on a connection that succeeded, on_open (when given) is called
\* exactly once, after connect and before any on_message; on_close is
\* called at most once and after the last on_message; and when run_forever
\* is left, the connection object (whenever one was made, a failed connect
\* included) has been closed, exactly once and as the last call.
C37_CallbackOrder ==
    /\ Cardinality(Calls("on_open")) <= 1
    /\ \A i \in Calls("on_open") : \E j \in ConnectedAt : j < i
    /\ ( app.on_open /\ ConnectedAt # {} /\ PastOnOpen )
          => Cardinality(Calls("on_open")) = 1
    /\ \A i \in Calls("on_message") :
          /\ \E j \in ConnectedAt : j < i
          /\ app.on_open => \E j \in Calls("on_open") : j < i
    /\ Cardinality(Calls("on_close")) <= 1
    /\ \A i \in Calls("on_close") : \A j \in Calls("on_message") : j < i
    /\ ( app.pc = "done" /\ app.ws # "None" )
          => /\ Cardinality(Calls("close")) = 1
             /\ events[Len(events)].call = "close"
    /\ app.pc # "done" => Calls("close") = {}

\* run_forever was left after a connect that failed and was reported, and
\* the connection was closed.
C37_Witness ==
    /\ app.pc = "done"
    /\ events = << Event("WebSocket", "", "returned"),
                   Event("connect", "", "raised"),
                   Event("on_error", "connect", "returned"),
                   Event("close", "", "returned") >>

\* run_forever was left after on_open, two messages and on_close, in this
\* order.
C37_WitnessOrder ==
    /\ app.pc = "done"
    /\ Cardinality(Calls("on_message")) = 2
    /\ Calls("on_open") = { 3 }
    /\ Calls("on_close") = { Len(events) - 1 }
    /\ Calls("close") = { Len(events) }


-----------------------------------------------------------------------------
(* Claims about the exceptions in WebSocketApp.run_forever                   *)

\* The calls of recv and on_message that raised.
LoopErrors ==
    { i \in Calls("recv") \cup Calls("on_message") : events[i].out = "raised" }

\* The calls of connect and on_open that raised.
SetupErrors ==
    { i \in Calls("connect") \cup Calls("on_open") : events[i].out = "raised" }

\* The calls of on_error that report the exception of the call at i.
Reports(i) == { j \in Calls("on_error") : j > i /\ events[j].arg = events[i].call }

\* The exception of the call at i was reported, once, and the report did or
\* did not return.
ReportOf(i) == CHOOSE j \in Reports(i) : TRUE

\* What holds of every exception of recv or on_message whatever the
\* callbacks do: one report at most, one exactly when on_error is given, no
\* later on_message, and the connection closed when run_forever is left.
LoopErrorHandled(i) ==
    /\ Cardinality(Reports(i)) <= 1
    /\ ( app.on_error /\ app.pc # "loop_except" ) => Cardinality(Reports(i)) = 1
    /\ \A j \in Calls("on_message") : j <= i
    /\ app.pc = "done" => \E k \in Calls("close") : k > i

\* What holds of every exception of connect or on_open: reported once when
\* on_error is given, and on_close never called.
SetupErrorHandled(i) ==
    /\ ( app.on_error /\ app.pc # "except" ) => Cardinality(Reports(i)) = 1
    /\ Calls("on_close") = {}

\* C38: an exception of recv or on_message is reported through on_error
\* (when given) exactly once, no on_message follows it, and by the time
\* run_forever is left on_close (when given) and close were called after
\* it; an exception of connect or on_open is reported through on_error and
\* on_close is not called.
C38_ErrorsReported ==
    /\ \A i \in LoopErrors :
          /\ LoopErrorHandled(i)
          /\ ( app.pc = "done" /\ app.on_close ) => \E k \in Calls("on_close") : k > i
    /\ \A i \in SetupErrors : SetupErrorHandled(i)

\* The same, on_close being promised only when the report returned: a
\* report that raises is handled as a failure of the whole body, with a
\* second call of on_error and no on_close.
C38_UnlessReportRaises ==
    /\ \A i \in LoopErrors :
          /\ LoopErrorHandled(i)
          /\ ( app.pc = "done" /\ app.on_close
               /\ ( app.on_error => events[ReportOf(i)].out = "returned" ) )
                => \E k \in Calls("on_close") : k > i
          /\ ( app.on_error /\ app.pc \notin { "loop_except", "except" }
               /\ events[ReportOf(i)].out = "raised" )
                => /\ events[ReportOf(i) + 1].call = "on_error"
                   /\ Calls("on_close") = {}
    /\ \A i \in SetupErrors : SetupErrorHandled(i)

\* recv raised, the report returned, on_close and close followed.
C38_Handled ==
    /\ app.pc = "done"
    /\ \E i \in LoopErrors :
          /\ events[i].call = "recv"
          /\ events[i + 1] = Event("on_error", "recv", "returned")
          /\ events[i + 2].call = "on_close"
          /\ events[i + 3].call = "close"


-----------------------------------------------------------------------------
(* "with _hook:", the block of the wrapper that use_websocket_rs puts around *)
(* a function (auto_patch.py)                                                *)

\* A block "with _hook:" that has been entered and, as history, what
\* is_auto_patch_enabled() gave before it was entered.
HookBlock == [ ctx |-> 0, enabled |-> hook_enabled ]

\* WebSocketRSImportHook.__enter__: a decorated function is called, or the
\* program enters "with _hook:"
HookEnter ==
    /\ Len(with_stack) < MaxDepth
    /\ HookEnable
    /\ with_stack' = Append(with_stack, HookBlock)
    /\ last_call' = Call("__enter__", "", "returned", "self")
    /\ UNCHANGED << sys_modules, attrs, original_modules, patched, contexts,
                    pristine, replaced >>
    /\ UNCHANGED << batchVars, statVars, compareVars >>
    /\ RunFrame
    /\ UNCHANGED appVars

\* WebSocketRSImportHook.__exit__: the body (the decorated function) has
\* returned or raised; __exit__ returns False, an exception goes on
HookExit(how) ==
    /\ with_stack # << >>
    /\ HookDisable
    /\ with_stack' = SubSeq(with_stack, 1, Len(with_stack) - 1)
    /\ last_call' = Call("__exit__", "", how, "False")
    /\ UNCHANGED << sys_modules, attrs, original_modules, patched, contexts,
                    pristine, replaced >>
    /\ UNCHANGED << batchVars, statVars, compareVars >>
    /\ RunFrame
    /\ UNCHANGED appVars

\* The program that calls decorated functions, which call decorated
\* functions in turn; the hook is enabled and disabled globally, and the
\* libraries are imported, between the calls.
NextDecorated ==
    \/ \E name \in ModuleNames : Import(name)
    \/ with_stack = << >> /\ EnableAutoPatch
    \/ with_stack = << >> /\ DisableAutoPatch
    \/ HookEnter
    \/ \E how \in { "returned", "raised" } : HookExit(how)

SpecDecorated == InitPatch /\ [][NextDecorated]_vars

\* C39: while a decorated function runs, is_auto_patch_enabled() is True,
\* and when it returns or raises is_auto_patch_enabled() is again what it
\* was before the call.
C39_StateRestored ==
    /\ [] ( with_stack # << >> => is_auto_patch_enabled )
    /\ [][ LeavesBlock => is_auto_patch_enabled' = BeforeBlock.enabled ]_vars

\* What the wrapper does instead: the hook is enabled when the function is
\* entered and disabled when it is left, whatever it was before.
C39_AlwaysDisabled ==
    [][ /\ ( Len(with_stack') > Len(with_stack) => is_auto_patch_enabled' )
        /\ ( LeavesBlock => ~is_auto_patch_enabled' ) ]_vars


-----------------------------------------------------------------------------
(* Claims about the import hook and sys.meta_path *)

\* The program that enables and disables the hook by the two functions and
\* by blocks "with _hook:", in any order and at any depth.
NextHookUse ==
    \/ \E name \in ModuleNames : Import(name)
    \/ EnableAutoPatch
    \/ DisableAutoPatch
    \/ HookEnter
    \/ \E how \in { "returned", "raised" } : HookExit(how)

SpecHookUse == InitPatch /\ [][NextHookUse]_vars

\* The positions of the finder in sys.meta_path.
FinderAt == { i \in 1..Len(meta_path) : meta_path[i] = "WebSocketRSFinder" }

\* C40: is_auto_patch_enabled() is True exactly when the finder is in
\* sys.meta_path, and the finder is there at most once.
C40_FlagIsPresence ==
    /\ is_auto_patch_enabled <=> FinderAt # {}
    /\ Cardinality(FinderAt) <= 1

\* The hook was disabled by leaving a block "with _hook:" nested in a block
\* that is still open.
C40_Witness ==
    /\ Len(with_stack) = 1
    /\ ~is_auto_patch_enabled
    /\ FinderAt = {}
    /\ last_call.name = "__exit__"

\* The hook is enabled, the finder first in sys.meta_path, after a call of
\* enable_auto_patch() that found it enabled.
C40_WitnessRepeated ==
    /\ is_auto_patch_enabled
    /\ FinderAt = { 1 }
    /\ last_call = Call("enable_auto_patch", "", "no effect", "None")

=============================================================================
